---- MODULE Spec2Model ----
(***************************************************************************)
(* The pages of the application and its storage as state machines.         *)
(*                                                                         *)
(* Spec: the quiz session of src/pages/Quizzes.tsx: the React state of the *)
(* Quizzes component, the rows of the questions and quiz_attempts tables   *)
(* it reads and writes, and the storage requests that are in flight        *)
(* between an `await` and its completion.                                  *)
(*                                                                         *)
(* SpecMaterials: the Materials page (generation from a topic or from      *)
(* pasted text), the two edge functions it invokes, and the persistence    *)
(* fan-out saveMaterialAndContent that writes the generated content.       *)
(*                                                                         *)
(* SpecDeletion: the deletion of a quiz (Quizzes.tsx) and the editing and  *)
(* deletion of a note (src/pages/Notes.tsx), with their confirmation       *)
(* dialogs and the requests in flight; SpecDeletionNoCascade is the same   *)
(* machine over a schema without ON DELETE CASCADE.                        *)
(*                                                                         *)
(* SpecStorage: the tables of the migration under row level security:      *)
(* select, insert, update and delete by either of two users.               *)
(*                                                                         *)
(* SpecMaterialsAuth: the Materials page while useAuth().user may become   *)
(* null between two handlers. SpecSignedOut: the Quizzes page mounted      *)
(* without a user, who then arrives.                                       *)
(*                                                                         *)
(* SpecTutor: the chat of the AI tutor (handleSend of part_001).           *)
(***************************************************************************)
EXTENDS Integers, Sequences, FiniteSets, Bags, TLC

VARIABLES
  user,                  \* useAuth().user
  quizzes,               \* useState<Quiz[]>([])
  selectedQuiz,          \* useState<Quiz | null>(null)
  questions,             \* useState<Question[]>([])
  currentQuestionIndex,  \* useState(0), 0-based
  userAnswers,           \* useState<Record<string, string>>({})
  showResults,           \* useState(false)
  loading,               \* useState(true)
  toast,                 \* the notification shown last (sonner)
  quiz_attempts,         \* public.quiz_attempts: a bag of rows
  fetchReq,              \* the quizzes select of fetchQuizzes is in flight
  loadReq,               \* quiz ids whose questions select is in flight
  submitReq,             \* the quiz_attempts inserts in flight: a bag of rows
  session,               \* history: number of successful loadQuiz runs so far
  resultsFrom            \* history: session of the submit that last set showResults

\* The Materials page. Its `loading` state is named generating here.
VARIABLES
  text,                  \* useState(""): the pasted text
  topic,                 \* useState(""): the topic
  generating,            \* useState(false): loading
  progress,              \* useState<string[]>([])
  route,                 \* the route shown: "/materials" or "/notes"
  run,                   \* the generation handler that is running, if any
  timers,                \* the setTimeout callbacks not yet fired: a bag
  db_materials,          \* public.materials: rows in insertion order
  db_notes,              \* public.notes
  db_flashcards,         \* public.flashcards
  db_quizzes,            \* public.quizzes
  db_questions,          \* public.questions
  log,                   \* history: storage writes issued and completed
  runs                   \* history: number of generation requests sent

\* The deletion of a quiz on the Quizzes page, and the two tables it reads
\* and deletes from.
VARIABLES
  deleteDialogOpen,      \* useState(false)
  quizToDelete,          \* useState<string | null>(null)
  deleting,              \* useState(false)
  deleteReq,             \* the handleDeleteConfirm calls that are running
  table_quizzes,         \* public.quizzes: rows
  table_questions,       \* public.questions: rows
  cascade                \* questions.quiz_id is declared on delete cascade

\* The Notes page: the list, the edit of a note, the deletion of a note.
VARIABLES
  notes,                 \* useState<Note[]>([])
  notesLoading,          \* useState(true): loading
  editingId,             \* useState<string | null>(null)
  editTitle,             \* useState("")
  editContent,           \* useState("")
  saving,                \* useState(false)
  notesDialogOpen,       \* useState(false): deleteDialogOpen
  noteToDelete,          \* useState<string | null>(null)
  notesDeleting,         \* useState(false): deleting
  notesFetchReq,         \* the notes select of fetchNotes is in flight
  saveReq,               \* the handleSave calls that are running
  noteDeleteReq,         \* the handleDeleteConfirm calls that are running
  table_notes,           \* public.notes: rows
  saves                  \* history: number of update requests sent

\* The storage as the users of the application reach it: the six tables
\* behind their row level security.
VARIABLES
  tables,                \* the rows of each table
  lastOp,                \* history: who ran the last statement, what a select returned
  ops                    \* history: number of statements run

\* The AI tutor chat. Its `input` and `loading` states are named chatInput
\* and chatLoading here.
VARIABLES
  messages,              \* useState<Message[]>([])
  chatInput,             \* useState(""): input
  chatLoading,           \* useState(false): loading
  mode,                  \* useState<TutorMode>("socratic")
  chatReq,               \* the ai-tutor invocations in flight: their number
  sends                  \* history: number of requests sent

quizVars == <<quizzes, selectedQuiz, questions, currentQuestionIndex,
              userAnswers, showResults, loading, quiz_attempts,
              fetchReq, loadReq, submitReq, session, resultsFrom>>

storage == <<db_materials, db_notes, db_flashcards, db_quizzes, db_questions>>

materialsVars == <<text, topic, generating, progress, route, run, timers,
                   storage, log, runs>>

deleteVars == <<deleteDialogOpen, quizToDelete, deleting, deleteReq,
                table_quizzes, table_questions, cascade>>

notesVars == <<notes, notesLoading, editingId, editTitle, editContent, saving,
               notesDialogOpen, noteToDelete, notesDeleting, notesFetchReq,
               saveReq, noteDeleteReq, table_notes, saves>>

rlsVars == <<tables, lastOp, ops>>

tutorVars == <<messages, chatInput, chatLoading, mode, chatReq, sends>>

vars == <<user, toast, quizVars, materialsVars, deleteVars, notesVars, rlsVars, tutorVars>>

\* ---------------------------------------------------------------- bounds
MaxSessions == 2     \* successful loadQuiz runs explored
MaxAttempts == 2     \* quiz_attempts inserts (written or in flight) explored

\* ------------------------------------------------------------ JSON values
NoUser == "null"     \* useAuth().user === null
NoQuiz == "null"     \* selectedQuiz === null
NoNote == "null"     \* editingId === null, noteToDelete === null

\* A jsonb value of questions.options: kind, own enumerable keys, values.
JsonNull == [kind |-> "null", keys |-> <<>>, vals |-> <<>>]
\* a field that the generated JSON does not have
JsonUndefined == [kind |-> "undefined", keys |-> <<>>, vals |-> <<>>]
JsonArray(items) ==
  [kind |-> "array", keys |-> [i \in 1..Len(items) |-> "idx"], vals |-> items]
JsonObject(ks, vs) == [kind |-> "object", keys |-> ks, vals |-> vs]
JsonString(chars) ==
  [kind |-> "string", keys |-> [i \in 1..Len(chars) |-> "idx"], vals |-> chars]

\* JavaScript truthiness of a JSON value: undefined, null and "" are falsy.
Truthy(o) ==
  o.kind \notin {"null", "undefined"} /\ ~(o.kind = "string" /\ o.vals = <<>>)
IsArray(o) == o.kind = "array"
ObjectKeys(o) == o.keys
ObjectValues(o) == o.vals

\* ------------------------------------------------------- stored questions
Question(id, quiz, opts, correct) ==
  [id |-> id, quiz_id |-> quiz, options |-> opts, correct_answer |-> correct]

\* public.questions: quiz qa mixes playable and unplayable questions, quiz qb
\* has none that is playable, quiz qc has a single question. The options of a4
\* were stored as a JSON string, and its correct_answer is none of the values
\* rendered for it.
questionsTable ==
  << Question("a1", "qa", JsonArray(<<"Paris", "paris">>), "Paris"),
     Question("a2", "qa", JsonNull, "osmosis"),
     Question("a3", "qa", JsonObject(<<"A">>, <<"False">>), "False"),
     Question("a4", "qa", JsonString(<<"T">>), "True"),
     Question("b1", "qb", JsonArray(<<>>), "x"),
     Question("b2", "qb", JsonObject(<<>>, <<>>), "x"),
     Question("b3", "qb", JsonNull, "x"),
     Question("b4", "qb", JsonString(<<>>), "x"),
     Question("c1", "qc", JsonArray(<<"4">>), "4") >>

quizzesTable == <<"qa", "qb", "qc">>

\* public.quizzes: the rows of quizzesTable, each owned by the user
quizzesRows ==
  [i \in 1..Len(quizzesTable) |-> [id |-> quizzesTable[i], user_id |-> "u1"]]

\* public.notes
Note(id, title, content) ==
  [id |-> id, user_id |-> "u1", title |-> title, content |-> content]
notesTable == << Note("n1", "Cells", "c1"), Note("n2", "Roots", "c2") >>

\* ------------------------------------------------- the tables and users
Users == {"u1", "u2"}
TableNames == {"materials", "notes", "flashcards", "quizzes", "questions",
               "quiz_attempts"}
Null == "null"

\* the table a row refers to, and the column that holds the reference:
\* material_id of notes, flashcards and quizzes (nullable), quiz_id of
\* questions and quiz_attempts (not null)
ParentTable(table) ==
  IF table \in {"notes", "flashcards", "quizzes"} THEN "materials"
  ELSE IF table \in {"questions", "quiz_attempts"} THEN "quizzes" ELSE Null
ParentOf(table, row) ==
  IF ParentTable(table) = "materials" THEN row.material_id
  ELSE IF ParentTable(table) = "quizzes" THEN row.quiz_id ELSE Null

\* a row of table: questions has no user_id column, materials refers to no
\* other table; val stands for the other columns
NewRow(table, id, owner, parent) ==
  IF table = "materials" THEN [id |-> id, user_id |-> owner, val |-> 0]
  ELSE IF table = "questions" THEN [id |-> id, quiz_id |-> parent, val |-> 0]
  ELSE IF table = "quiz_attempts"
  THEN [id |-> id, user_id |-> owner, quiz_id |-> parent, val |-> 0]
  ELSE [id |-> id, user_id |-> owner, material_id |-> parent, val |-> 0]

\* each user has a material with a quiz and a question; u1 has a note and
\* an attempt, u2 a flashcard
InitialTables ==
  [materials     |-> << NewRow("materials", "1", "u1", Null),
                        NewRow("materials", "2", "u2", Null) >>,
   notes         |-> << NewRow("notes", "1", "u1", "1") >>,
   flashcards    |-> << NewRow("flashcards", "1", "u2", "2") >>,
   quizzes       |-> << NewRow("quizzes", "1", "u1", "1"),
                        NewRow("quizzes", "2", "u2", "2") >>,
   questions     |-> << NewRow("questions", "1", Null, "1"),
                        NewRow("questions", "2", Null, "2") >>,
   quiz_attempts |-> << NewRow("quiz_attempts", "1", "u1", "1") >>]

\* no statement has been run
NoOp == [uid |-> Null, command |-> "none", table |-> Null, rows |-> <<>>]

\* ---------------------------------------------------- row level security
\* The commands for which the migration creates a policy on each table.
\* Row level security is enabled on every table, so a command without a
\* policy sees no row.
Policies ==
  [materials     |-> {"SELECT", "INSERT", "UPDATE", "DELETE"},
   notes         |-> {"SELECT", "INSERT", "UPDATE", "DELETE"},
   flashcards    |-> {"SELECT", "INSERT", "UPDATE", "DELETE"},
   quizzes       |-> {"SELECT", "INSERT", "UPDATE", "DELETE"},
   questions     |-> {"SELECT", "INSERT"},
   quiz_attempts |-> {"SELECT", "INSERT"}]

\* Mutant of Permitted: the policies do not compare the owner.
Permitted_AnyOwner(table, command, uid, row, quizRows) ==
  command \in Policies[table]

\* using / with check of the policies: auth.uid() = user_id, and for
\* questions: exists (select 1 from quizzes where quizzes.id =
\* questions.quiz_id and quizzes.user_id = auth.uid())
Permitted(table, command, uid, row, quizRows) ==
  /\ command \in Policies[table]
  /\ IF table = "questions"
     THEN \E i \in 1..Len(quizRows) :
            quizRows[i].id = row.quiz_id /\ quizRows[i].user_id = uid
     ELSE row.user_id = uid

\* the filter of a request: .eq(col, val), or none
Eq(col, val) == [col |-> col, val |-> val]
All == Eq("*", "*")
Matches(row, where) == where.col = "*" \/ row[where.col] = where.val

\* delete from table where the filter matches, as uid: the rows that stay
DeleteFrom(table, rows, where, uid, quizRows) ==
  SelectSeq(rows, LAMBDA row :
    ~(Matches(row, where) /\ Permitted(table, "DELETE", uid, row, quizRows)))

\* select * from table where the filter matches, as uid
SelectFrom(table, rows, where, uid, quizRows) ==
  SelectSeq(rows, LAMBDA row :
    Matches(row, where) /\ Permitted(table, "SELECT", uid, row, quizRows))

\* Mutant of OnDeleteCascade: the rows that refer to the quiz stay.
OnDeleteCascade_Restrict(rows, quizId) == rows

\* references public.quizzes(id) on delete cascade: the rows of questions
\* that stay when quiz quizId is deleted
OnDeleteCascade(rows, quizId) ==
  SelectSeq(rows, LAMBDA row : row.quiz_id # quizId)

\* Mutant of EqQuizId: the filter on quiz_id is missing.
EqQuizId_Any(s, quiz) == s

RECURSIVE EqQuizId(_, _)
\* rows of s whose quiz_id is quiz, in table order (.eq("quiz_id", quiz.id))
EqQuizId(s, quiz) ==
  IF s = <<>> THEN <<>>
  ELSE IF Head(s).quiz_id = quiz
       THEN <<Head(s)>> \o EqQuizId(Tail(s), quiz)
       ELSE EqQuizId(Tail(s), quiz)

\* .from("questions").select("*").eq("quiz_id", quiz.id)
FetchQuestions(quiz) ==
  EqQuizId(SelectFrom("questions", table_questions, All,
                      user, table_quizzes), quiz)

\* ------------------------------------------------------------ loadQuiz
\* q.options && (Array.isArray(q.options) ? q.options.length > 0
\*                                        : Object.keys(q.options || {}).length > 0)
HasOptions(q) ==
  /\ Truthy(q.options)
  /\ IF IsArray(q.options) THEN Len(q.options.vals) > 0
     ELSE Len(ObjectKeys(q.options)) > 0

RECURSIVE Filter(_)
\* (data || []).filter(...): the rows that pass HasOptions, order kept
Filter(data) ==
  IF data = <<>> THEN <<>>
  ELSE IF HasOptions(Head(data))
       THEN <<Head(data)>> \o Filter(Tail(data))
       ELSE Filter(Tail(data))

validQuestions(data) == Filter(data)

\* ------------------------------------------------------------- scoring
Undefined == "undefined"
\* userAnswers[q.id]: undefined when the record has no such key
Lookup(answers, id) == IF id \in DOMAIN answers THEN answers[id] ELSE Undefined

\* Mutant of StrictEquals: the comparison ignores case.
Lower(a) == IF a = "Paris" THEN "paris" ELSE a
LooseEquals(a, b) == Lower(a) = Lower(b)

\* Mutant of StrictEquals: the comparison accepts an initial for the word.
InitialEquals(a, b) == a = b \/ (a = "T" /\ b = "True")

\* userAnswers[q.id] === q.correct_answer
StrictEquals(a, b) == a = b

RECURSIVE Reduce(_, _, _)
\* questions.reduce((acc, q) => acc + (... ? 1 : 0), 0)
Reduce(qs, answers, acc) ==
  IF qs = <<>> THEN acc
  ELSE Reduce(Tail(qs), answers,
              acc + (IF StrictEquals(Lookup(answers, Head(qs).id),
                                     Head(qs).correct_answer) THEN 1 ELSE 0))

Score(qs, answers) == Reduce(qs, answers, 0)

\* Mutant of Percentage: the score is divided by the number of answers.
Percentage_OfAnswered(score, total) ==
  [num |-> score * 100, den |-> Cardinality(DOMAIN userAnswers)]

\* (score / questions.length) * 100, kept exact as the fraction num/den
Percentage(score, total) == [num |-> score * 100, den |-> total]

\* Mutant of ToFixed0: the fraction is cut off, not rounded.
ToFixed0_Truncate(p) == p.num \div p.den

\* percentage.toFixed(0): the nearest integer, halves upwards
ToFixed0(p) == (2 * p.num + p.den) \div (2 * p.den)

\* ---------------------------------------------------------------- views
\* The render function returns the first of these whose test holds.
ViewLoading == loading
ViewBrowsing == ~loading /\ selectedQuiz = NoQuiz
ViewResults == ~loading /\ selectedQuiz # NoQuiz /\ showResults
ViewInProgress == ~loading /\ selectedQuiz # NoQuiz /\ ~showResults

currentQuestion == questions[currentQuestionIndex + 1]

\* the values of the radio items rendered for a question
RenderedOptions(q) ==
  LET opts == IF IsArray(q.options) THEN q.options.vals
              ELSE ObjectValues(q.options)
  IN {opts[i] : i \in 1..Len(opts)}

\* toast.error(msg) / toast.success(msg); the score printed in the success
\* text of handleSubmit is left out of msg
\* One card of the Results view: the icon, "Your answer:", and the
\* "Correct answer:" line that is rendered only when the answer is not right.
ResultsCard(question, answers) ==
  LET userAnswer == Lookup(answers, question.id)
      isCorrect == StrictEquals(userAnswer, question.correct_answer)
  IN [id |-> question.id,
      isCorrect |-> isCorrect,
      yourAnswer |-> IF userAnswer = Undefined \/ userAnswer = ""
                     THEN "Not answered" ELSE userAnswer,
      showsCorrectAnswer |-> ~isCorrect,
      correctAnswer |-> question.correct_answer]

\* What the Results view shows: the headline percentage, "You got score out
\* of total", and one card per element of questions, in order.
ResultsView ==
  LET score == Score(questions, userAnswers)
  IN [percentage |-> ToFixed0(Percentage(score, Len(questions))),
      score |-> score,
      total |-> Len(questions),
      cards |-> [i \in 1..Len(questions) |->
                   ResultsCard(questions[i], userAnswers)]]

Toast(kind, msg) == [kind |-> kind, msg |-> msg]
NoAnswers == [id \in {} |-> ""]

\* The state in which a page is mounted for useAuth().user = u: without a
\* user fetchQuizzes and fetchNotes return before their request.
Mounted(u) ==
  /\ user = u
  /\ quizzes = <<>>
  /\ selectedQuiz = NoQuiz
  /\ questions = <<>>
  /\ currentQuestionIndex = 0
  /\ userAnswers = NoAnswers
  /\ showResults = FALSE
  /\ loading = TRUE
  /\ toast = Toast("none", "")
  /\ quiz_attempts = EmptyBag
  /\ fetchReq = (u # NoUser)
  /\ loadReq = {}
  /\ submitReq = EmptyBag
  /\ session = 0
  /\ resultsFrom = 0
  /\ text = <<>>
  /\ topic = <<>>
  /\ generating = FALSE
  /\ progress = <<>>
  /\ route = "/materials"
  /\ run = [pc |-> "idle", fn |-> "none", input |-> <<>>, id |-> 0,
            materialTitle |-> <<>>, sourceType |-> "none",
            generatedData |-> [title |-> JsonUndefined, summary |-> JsonUndefined,
                               key_points |-> JsonUndefined,
                               examples |-> JsonUndefined,
                               flashcards |-> JsonUndefined,
                               quiz_questions |-> JsonUndefined],
            material |-> 0, quiz |-> 0]
  /\ timers = EmptyBag
  /\ db_materials = <<>>
  /\ db_notes = <<>>
  /\ db_flashcards = <<>>
  /\ db_quizzes = <<>>
  /\ db_questions = <<>>
  /\ log = <<>>
  /\ runs = 0
  /\ deleteDialogOpen = FALSE
  /\ quizToDelete = NoQuiz
  /\ deleting = FALSE
  /\ deleteReq = {}
  /\ table_quizzes = quizzesRows
  /\ table_questions = questionsTable
  /\ notes = <<>>
  /\ notesLoading = TRUE
  /\ editingId = NoNote
  /\ editTitle = ""
  /\ editContent = ""
  /\ saving = FALSE
  /\ notesDialogOpen = FALSE
  /\ noteToDelete = NoNote
  /\ notesDeleting = FALSE
  /\ notesFetchReq = (u # NoUser)
  /\ saveReq = {}
  /\ noteDeleteReq = {}
  /\ table_notes = notesTable
  /\ saves = 0
  /\ tables = InitialTables
  /\ lastOp = NoOp
  /\ ops = 0
  /\ messages = <<>>
  /\ chatInput = <<>>
  /\ chatLoading = FALSE
  /\ mode = "socratic"
  /\ chatReq = 0
  /\ sends = 0

InitPages == Mounted("u1")

\* The storage of the migration: questions.quiz_id is declared
\* references public.quizzes(id) on delete cascade.
Init == InitPages /\ cascade = TRUE

\* .from("quizzes").select("*").eq("user_id", user.id): the ids of the rows
SelectQuizzes ==
  LET data == SelectFrom("quizzes", table_quizzes,
                         Eq("user_id", user), user, table_quizzes)
  IN [i \in 1..Len(data) |-> data[i].id]

\* fetchQuizzes, from the await to the end: the select resolves with the
\* user's quizzes or with an error.
FetchQuizzesDone(outcome) ==
  /\ fetchReq
  /\ fetchReq' = FALSE
  /\ IF outcome = "data"
     THEN quizzes' = SelectQuizzes /\ UNCHANGED toast
     ELSE /\ toast' = Toast("error", "Failed to load quizzes")
          /\ UNCHANGED quizzes
  /\ loading' = FALSE
  /\ UNCHANGED <<user, selectedQuiz, questions, currentQuestionIndex,
                 userAnswers, showResults, quiz_attempts, loadReq, submitReq,
                 session, resultsFrom>>
  /\ UNCHANGED <<materialsVars, deleteVars, notesVars, rlsVars, tutorVars>>

\* loadQuiz up to its await: a click on a quiz card of the Browsing view.
\* The delete dialog is modal: the cards take no click while it is open.
LoadQuizStart(quiz) ==
  /\ ViewBrowsing /\ ~deleteDialogOpen
  /\ \E i \in 1..Len(quizzes) : quizzes[i] = quiz
  /\ session < MaxSessions
  /\ loading' = TRUE
  /\ loadReq' = loadReq \cup {quiz}
  /\ UNCHANGED <<user, quizzes, selectedQuiz, questions, currentQuestionIndex,
                 userAnswers, showResults, toast, quiz_attempts, fetchReq,
                 submitReq, session, resultsFrom>>
  /\ UNCHANGED <<materialsVars, deleteVars, notesVars, rlsVars, tutorVars>>

\* Mutant of LoadQuizDone: the validQuestions.length === 0 test is missing.
LoadQuizDone_NoEmptyCheck(quiz, outcome) ==
  /\ quiz \in loadReq
  /\ loadReq' = loadReq \ {quiz}
  /\ IF outcome = "error"
     THEN /\ toast' = Toast("error", "Failed to load quiz questions")
          /\ UNCHANGED <<questions, selectedQuiz, currentQuestionIndex,
                         userAnswers, showResults, session>>
     ELSE /\ questions' = validQuestions(FetchQuestions(quiz))
          /\ selectedQuiz' = quiz
          /\ currentQuestionIndex' = 0
          /\ userAnswers' = NoAnswers
          /\ showResults' = FALSE
          /\ session' = session + 1
          /\ UNCHANGED toast
  /\ loading' = FALSE
  /\ UNCHANGED <<user, quizzes, quiz_attempts, fetchReq, submitReq, resultsFrom>>
  /\ UNCHANGED <<materialsVars, deleteVars, notesVars, rlsVars, tutorVars>>

\* Mutant of LoadQuizDone: setShowResults(false) is missing.
LoadQuizDone_KeepShowResults(quiz, outcome) ==
  /\ quiz \in loadReq
  /\ loadReq' = loadReq \ {quiz}
  /\ IF outcome = "error"
     THEN /\ toast' = Toast("error", "Failed to load quiz questions")
          /\ UNCHANGED <<questions, selectedQuiz, currentQuestionIndex,
                         userAnswers, showResults, session>>
     ELSE LET valid == validQuestions(FetchQuestions(quiz))
          IN IF Len(valid) = 0
             THEN /\ toast' = Toast("error",
                       "No valid multiple choice questions found in this quiz")
                  /\ UNCHANGED <<questions, selectedQuiz, currentQuestionIndex,
                                 userAnswers, showResults, session>>
             ELSE /\ questions' = valid
                  /\ selectedQuiz' = quiz
                  /\ currentQuestionIndex' = 0
                  /\ userAnswers' = NoAnswers
                  /\ session' = session + 1
                  /\ UNCHANGED <<toast, showResults>>
  /\ loading' = FALSE
  /\ UNCHANGED <<user, quizzes, quiz_attempts, fetchReq, submitReq, resultsFrom>>
  /\ UNCHANGED <<materialsVars, deleteVars, notesVars, rlsVars, tutorVars>>

\* loadQuiz from its await to the end: the select resolves with the rows of
\* the quiz or with an error.
LoadQuizDone(quiz, outcome) ==
  /\ quiz \in loadReq
  /\ loadReq' = loadReq \ {quiz}
  /\ IF outcome = "error"
     THEN /\ toast' = Toast("error", "Failed to load quiz questions")
          /\ UNCHANGED <<questions, selectedQuiz, currentQuestionIndex,
                         userAnswers, showResults, session>>
     ELSE LET valid == validQuestions(FetchQuestions(quiz))
          IN IF Len(valid) = 0
             THEN /\ toast' = Toast("error",
                       "No valid multiple choice questions found in this quiz")
                  /\ UNCHANGED <<questions, selectedQuiz, currentQuestionIndex,
                                 userAnswers, showResults, session>>
             ELSE /\ questions' = valid
                  /\ selectedQuiz' = quiz
                  /\ currentQuestionIndex' = 0
                  /\ userAnswers' = NoAnswers
                  /\ showResults' = FALSE
                  /\ session' = session + 1
                  /\ UNCHANGED toast
  /\ loading' = FALSE
  /\ UNCHANGED <<user, quizzes, quiz_attempts, fetchReq, submitReq, resultsFrom>>
  /\ UNCHANGED <<materialsVars, deleteVars, notesVars, rlsVars, tutorVars>>

\* Mutant of handleAnswerSelect: the value is free text, not the value of a
\* rendered radio item.
handleAnswerSelect_AnyValue(value) ==
  /\ ViewInProgress
  /\ Truthy(currentQuestion.options)
  /\ userAnswers' = [id \in DOMAIN userAnswers \cup {currentQuestion.id} |->
                       IF id = currentQuestion.id THEN value ELSE userAnswers[id]]
  /\ UNCHANGED <<user, quizzes, selectedQuiz, questions, currentQuestionIndex,
                 showResults, loading, toast, quiz_attempts, fetchReq, loadReq,
                 submitReq, session, resultsFrom>>
  /\ UNCHANGED <<materialsVars, deleteVars, notesVars, rlsVars, tutorVars>>

\* Mutant of handleAnswerSelect: the new record is built without ...prev.
handleAnswerSelect_NoSpread(value) ==
  /\ ViewInProgress
  /\ Truthy(currentQuestion.options)
  /\ value \in RenderedOptions(currentQuestion)
  /\ userAnswers' = [id \in {currentQuestion.id} |-> value]
  /\ UNCHANGED <<user, quizzes, selectedQuiz, questions, currentQuestionIndex,
                 showResults, loading, toast, quiz_attempts, fetchReq, loadReq,
                 submitReq, session, resultsFrom>>
  /\ UNCHANGED <<materialsVars, deleteVars, notesVars, rlsVars, tutorVars>>

\* handleAnswerSelect(currentQuestion.id, value), from the RadioGroup of the
\* in-progress view.
handleAnswerSelect(value) ==
  /\ ViewInProgress
  /\ Truthy(currentQuestion.options)
  /\ value \in RenderedOptions(currentQuestion)
  /\ userAnswers' = [id \in DOMAIN userAnswers \cup {currentQuestion.id} |->
                       IF id = currentQuestion.id THEN value ELSE userAnswers[id]]
  /\ UNCHANGED <<user, quizzes, selectedQuiz, questions, currentQuestionIndex,
                 showResults, loading, toast, quiz_attempts, fetchReq, loadReq,
                 submitReq, session, resultsFrom>>
  /\ UNCHANGED <<materialsVars, deleteVars, notesVars, rlsVars, tutorVars>>

\* Mutant of handleNext: the test against questions.length - 1 is missing.
handleNext_NoBound ==
  /\ ViewInProgress
  /\ currentQuestionIndex' = currentQuestionIndex + 1
  /\ UNCHANGED <<user, quizzes, selectedQuiz, questions, userAnswers,
                 showResults, loading, toast, quiz_attempts, fetchReq, loadReq,
                 submitReq, session, resultsFrom>>
  /\ UNCHANGED <<materialsVars, deleteVars, notesVars, rlsVars, tutorVars>>

\* handleNext. The Next button is rendered only when the index is not the
\* last one; the handler tests the bound itself, so running it at the last
\* index changes nothing.
handleNext ==
  /\ ViewInProgress
  /\ currentQuestionIndex' =
       IF currentQuestionIndex < Len(questions) - 1
       THEN currentQuestionIndex + 1 ELSE currentQuestionIndex
  /\ UNCHANGED <<user, quizzes, selectedQuiz, questions, userAnswers,
                 showResults, loading, toast, quiz_attempts, fetchReq, loadReq,
                 submitReq, session, resultsFrom>>
  /\ UNCHANGED <<materialsVars, deleteVars, notesVars, rlsVars, tutorVars>>

\* handlePrevious. The Previous button is disabled at index 0, where the
\* handler changes nothing either.
handlePrevious ==
  /\ ViewInProgress
  /\ currentQuestionIndex' =
       IF currentQuestionIndex > 0
       THEN currentQuestionIndex - 1 ELSE currentQuestionIndex
  /\ UNCHANGED <<user, quizzes, selectedQuiz, questions, userAnswers,
                 showResults, loading, toast, quiz_attempts, fetchReq, loadReq,
                 submitReq, session, resultsFrom>>
  /\ UNCHANGED <<materialsVars, deleteVars, notesVars, rlsVars, tutorVars>>

\* The row handleSubmit passes to insert(), computed from the questions and
\* answers of the render the click happened in.
AttemptRow ==
  [user_id |-> user,
   quiz_id |-> selectedQuiz,
   score |-> Percentage(Score(questions, userAnswers), Len(questions)),
   total_questions |-> Len(questions)]

\* handleSubmit up to its await: the Submit Quiz button is rendered in the
\* in-progress view when the index is the last one, and is not disabled
\* while an insert is in flight.
handleSubmit ==
  /\ ViewInProgress
  /\ currentQuestionIndex = Len(questions) - 1
  /\ BagCardinality(quiz_attempts) + BagCardinality(submitReq) < MaxAttempts
  /\ submitReq' = submitReq (+) SetToBag({[row |-> AttemptRow, session |-> session]})
  /\ UNCHANGED <<user, quizzes, selectedQuiz, questions, currentQuestionIndex,
                 userAnswers, showResults, loading, toast, quiz_attempts,
                 fetchReq, loadReq, session, resultsFrom>>
  /\ UNCHANGED <<materialsVars, deleteVars, notesVars, rlsVars, tutorVars>>

\* handleSubmit from its await to the end, for the in-flight insert req. The
\* insert promise resolves with the row written ("ok"), resolves with an error
\* result and nothing written ("error": the result is not inspected), or
\* rejects ("reject").
SubmitDone(req, outcome) ==
  /\ BagIn(req, submitReq)
  /\ submitReq' = submitReq (-) SetToBag({req})
  /\ quiz_attempts' = IF outcome = "ok" THEN quiz_attempts (+) SetToBag({req})
                      ELSE quiz_attempts
  /\ IF outcome = "reject"
     THEN /\ toast' = Toast("error", "Failed to save quiz results")
          /\ UNCHANGED <<showResults, resultsFrom>>
     ELSE /\ showResults' = TRUE
          /\ resultsFrom' = req.session
          /\ toast' = Toast("success", "Quiz completed! Score: ")
  /\ UNCHANGED <<user, quizzes, selectedQuiz, questions, currentQuestionIndex,
                 userAnswers, loading, fetchReq, loadReq, session>>
  /\ UNCHANGED <<materialsVars, deleteVars, notesVars, rlsVars, tutorVars>>

\* Mutant of resetQuiz: setUserAnswers({}) is missing.
resetQuiz_KeepAnswers ==
  /\ ViewInProgress \/ ViewResults
  /\ selectedQuiz' = NoQuiz
  /\ questions' = <<>>
  /\ currentQuestionIndex' = 0
  /\ showResults' = FALSE
  /\ UNCHANGED <<user, quizzes, userAnswers, loading, toast, quiz_attempts,
                 fetchReq, loadReq, submitReq, session, resultsFrom>>
  /\ UNCHANGED <<materialsVars, deleteVars, notesVars, rlsVars, tutorVars>>

\* resetQuiz: Exit Quiz of the in-progress view, Back to Quizzes of Results.
resetQuiz ==
  /\ ViewInProgress \/ ViewResults
  /\ selectedQuiz' = NoQuiz
  /\ questions' = <<>>
  /\ currentQuestionIndex' = 0
  /\ userAnswers' = NoAnswers
  /\ showResults' = FALSE
  /\ UNCHANGED <<user, quizzes, loading, toast, quiz_attempts, fetchReq,
                 loadReq, submitReq, session, resultsFrom>>
  /\ UNCHANGED <<materialsVars, deleteVars, notesVars, rlsVars, tutorVars>>

\* The Review Answers button of the Results view.
ReviewAnswers ==
  /\ ViewResults
  /\ showResults' = FALSE
  /\ currentQuestionIndex' = 0
  /\ UNCHANGED <<user, quizzes, selectedQuiz, questions, userAnswers, loading,
                 toast, quiz_attempts, fetchReq, loadReq, submitReq, session,
                 resultsFrom>>
  /\ UNCHANGED <<materialsVars, deleteVars, notesVars, rlsVars, tutorVars>>

Next ==
  \/ \E outcome \in {"data", "error"} : FetchQuizzesDone(outcome)
  \/ \E i \in 1..Len(quizzes) : LoadQuizStart(quizzes[i])
  \/ \E quiz \in loadReq, outcome \in {"data", "error"} : LoadQuizDone(quiz, outcome)
  \/ \E value \in {"Paris", "paris", "False", "T", "4"} :
       handleAnswerSelect(value)
  \/ handleNext
  \/ handlePrevious
  \/ handleSubmit
  \/ \E req \in BagToSet(submitReq), outcome \in {"ok", "error", "reject"} :
       SubmitDone(req, outcome)
  \/ resetQuiz
  \/ ReviewAnswers

Spec == Init /\ [][Next]_vars

\* ======================================================================
\* The Materials page
\* ======================================================================

\* ---------------------------------------------------------------- bounds
MaxRuns == 1         \* generation requests sent from the page

\* ---------------------------------------------------------------- strings
\* A string is a sequence of pieces; a piece is white space or a word.
IsWhitespace(c) == c \in {" ", "\n", "\t"}

RECURSIVE TrimStart(_)
TrimStart(s) ==
  IF s # <<>> /\ IsWhitespace(Head(s)) THEN TrimStart(Tail(s)) ELSE s

RECURSIVE TrimEnd(_)
TrimEnd(s) ==
  IF s # <<>> /\ IsWhitespace(s[Len(s)])
  THEN TrimEnd(SubSeq(s, 1, Len(s) - 1)) ELSE s

\* String.prototype.trim
Trim(s) == TrimEnd(TrimStart(s))

\* String.prototype.substring(from, to), 0 <= from <= to
Substring(s, from, to) ==
  SubSeq(s, from + 1, IF to < Len(s) THEN to ELSE Len(s))

\* what the user can have typed into either input
Inputs == { <<>>, <<" ", "\n">>, <<" ", "Osmosis", " ">> }

\* ------------------------------------------------------- generated content

Card(question, difficulty) ==
  [question |-> question, answer |-> "a", difficulty |-> difficulty]

QuizQuestion(question, type, opts) ==
  [question |-> question, type |-> type, options |-> opts,
   correct_answer |-> "A", explanation |-> JsonUndefined]

\* The generation result of the Osmosis scenario: 8 key points, 4 examples,
\* 5 flashcards (one without a difficulty), 8 quiz questions (one of them a
\* short_answer question without options).
Osmosis ==
  [title |-> JsonString(<<"Osmosis">>),
   summary |-> JsonString(<<"...">>),
   key_points |-> JsonArray(<<"k1", "k2", "k3", "k4", "k5", "k6", "k7", "k8">>),
   examples |-> JsonArray(<<"e1", "e2", "e3", "e4">>),
   flashcards |-> JsonArray(<<Card("f1", "easy"), Card("f2", Undefined),
                              Card("f3", "hard"), Card("f4", "medium"),
                              Card("f5", "easy")>>),
   quiz_questions |->
     JsonArray(<<QuizQuestion("q1", "multiple_choice", JsonArray(<<"A", "B">>)),
                 QuizQuestion("q2", "true_false", JsonArray(<<"True", "False">>)),
                 QuizQuestion("q3", "short_answer", JsonUndefined),
                 QuizQuestion("q4", "multiple_choice", JsonArray(<<"A", "B">>)),
                 QuizQuestion("q5", "multiple_choice", JsonArray(<<"A", "B">>)),
                 QuizQuestion("q6", "multiple_choice", JsonArray(<<"A", "B">>)),
                 QuizQuestion("q7", "multiple_choice", JsonArray(<<"A", "B">>)),
                 QuizQuestion("q8", "multiple_choice", JsonArray(<<"A", "B">>))>>)]

\* A result with a summary only: its lists are there but empty.
EmptyLists ==
  [title |-> JsonUndefined,
   summary |-> JsonString(<<"...">>),
   key_points |-> JsonUndefined,
   examples |-> JsonUndefined,
   flashcards |-> JsonArray(<<>>),
   quiz_questions |-> JsonArray(<<>>)]

\* A result without flashcards and without a quiz.
NotesOnly ==
  [title |-> JsonString(<<>>),
   summary |-> JsonString(<<"...">>),
   key_points |-> JsonNull,
   examples |-> JsonArray(<<"e1">>),
   flashcards |-> JsonUndefined,
   quiz_questions |-> JsonNull]

\* The value of `data` when the invocation returns none.
NoData ==
  [title |-> JsonUndefined, summary |-> JsonUndefined,
   key_points |-> JsonUndefined, examples |-> JsonUndefined,
   flashcards |-> JsonUndefined, quiz_questions |-> JsonUndefined]

\* JSON.parse of a cleaned response: one JSON text, white space around it
\* allowed; anything else is a SyntaxError.
JsonTexts == {"{osmosis}", "{empty}", "{notes}"}
JsonValue(piece) ==
  CASE piece = "{osmosis}" -> Osmosis
    [] piece = "{empty}" -> EmptyLists
    [] piece = "{notes}" -> NotesOnly
CanParse(s) == Len(Trim(s)) = 1 /\ Trim(s)[1] \in JsonTexts
JSONParse(s) == JsonValue(Trim(s)[1])

\* ------------------------------------------------------ the edge functions
\* What the AI gateway can answer: a status and, for a 2xx, the content of
\* the first choice ("none" when there is no content).
NoContent == <<"none">>
\* the pieces that stand for a code fence: Fence is three backquotes; the
\* label written after the opening fence is the piece that follows it
Fence == "[fence]"
FenceJson == <<Fence, "json">>
Labels == {"json", "JSON"}
Openings == {<<Fence>>} \cup { <<Fence, label>> : label \in Labels }
Fenced(open, piece) == open \o <<"\n", piece, "\n", Fence>>
Upstreams ==
  { [status |-> 429, content |-> NoContent],
    [status |-> 402, content |-> NoContent],
    [status |-> 503, content |-> NoContent],
    [status |-> 200, content |-> NoContent],
    [status |-> 200, content |-> <<"{osmosis}">>],
    [status |-> 200, content |-> Fenced(FenceJson, "{osmosis}")],
    [status |-> 200, content |-> Fenced(<<Fence>>, "{empty}")],
    [status |-> 200, content |-> Fenced(<<Fence, "JSON">>, "{osmosis}")],
    [status |-> 200, content |-> <<"{notes}", "\n">>],
    [status |-> 200, content |-> <<"Sure!", "\n", "{osmosis}">>] }

\* response.ok
Ok(status) == status \in 200..299

\* cleanedContent.startsWith(prefix)
StartsWith(s, prefix) ==
  Len(s) >= Len(prefix) /\ SubSeq(s, 1, Len(prefix)) = prefix

\* cleanedContent.replace(/^```json\s*/, '') and .replace(/^```\s*/, ''):
\* the matched opening and the white space after it
StripOpeningFence(s, open) == TrimStart(SubSeq(s, Len(open) + 1, Len(s)))

\* .replace(/\s*```$/, ''): a closing fence at the very end and the white
\* space before it
StripClosingFence(s) ==
  IF s # <<>> /\ s[Len(s)] = Fence
  THEN TrimEnd(SubSeq(s, 1, Len(s) - 1)) ELSE s

\* the cleaning of the AI content before JSON.parse
CleanContent(content) ==
  LET cleanedContent == Trim(content)
  IN IF StartsWith(cleanedContent, FenceJson)
     THEN StripClosingFence(StripOpeningFence(cleanedContent, FenceJson))
     ELSE IF StartsWith(cleanedContent, <<Fence>>)
          THEN StripClosingFence(StripOpeningFence(cleanedContent, <<Fence>>))
          ELSE cleanedContent

Response(status, error, data) == [status |-> status, error |-> error, data |-> data]

\* serve() of generate-from-topic and of process-material: the request body
\* holds the topic (the content), upstream is the gateway's answer. The two
\* functions differ in the field they read and in the text of the 400.
EdgeFunction(fn, input, upstream) ==
  IF Trim(input) = <<>>
  THEN Response(400, IF fn = "generate-from-topic" THEN "Topic is required"
                     ELSE "Content is required", NoData)
  ELSE IF ~Ok(upstream.status)
  THEN IF upstream.status = 429
       THEN Response(429, "Rate limit exceeded. Please try again in a moment.",
                     NoData)
       ELSE IF upstream.status = 402
       THEN Response(402, "AI credits depleted. Please add credits to continue.",
                     NoData)
       ELSE Response(500, "AI API error: " \o ToString(upstream.status), NoData)
  ELSE IF upstream.content = NoContent
  THEN Response(500, "No content generated", NoData)
  ELSE IF ~CanParse(CleanContent(upstream.content))
  THEN Response(500, "AI generated invalid JSON format", NoData)
  ELSE Response(200, "", JSONParse(CleanContent(upstream.content)))

\* ---------------------------------------------------------- the client
NoError == "null"

\* supabase.functions.invoke resolves with { data, error }: a non-2xx
\* response gives a FunctionsHttpError, whose message is the same for every
\* status and whose context holds the response; a request that could not be
\* sent gives a FunctionsFetchError.
FunctionsHttpError == "Edge Function returned a non-2xx status code"
FunctionsFetchError == "Failed to send a request to the Edge Function"
\* Mutant of Invoke: the status of the response is not looked at.
Invoke_IgnoreStatus(response) ==
  [data |-> response.data, error |-> NoError]

Invoke(response) ==
  IF Ok(response.status)
  THEN [data |-> response.data, error |-> NoError]
  ELSE [data |-> NoData, error |-> FunctionsHttpError]

\* toast.error(error.message || fallback)
ErrorMessage(message, fallback) == IF message = "" THEN fallback ELSE message

\* ------------------------------------------------------------ the handler

\* The handler that is running: where it waits (pc), the function it
\* invoked, the input its closure holds, the arguments and locals of
\* saveMaterialAndContent, and the number of the request (history).
Idle ==
  [pc |-> "idle", fn |-> "none", input |-> <<>>, id |-> 0,
   materialTitle |-> <<>>, sourceType |-> "none", generatedData |-> NoData,
   material |-> 0, quiz |-> 0]

\* An entry of log: run id issued a write to table (ev = "issue"), or the
\* write it had issued completed with ev = "ok", "error" or "reject";
\* material and quiz are the ids the handler holds then: those the rows of
\* an issued write refer to, those an insert has returned.
Event(r, ev, table) ==
  [run |-> r.id, ev |-> ev, table |-> table,
   material |-> r.material, quiz |-> r.quiz]

\* the tests of saveMaterialAndContent that decide which write comes next
AfterFlashcards(generatedData) ==
  IF Truthy(generatedData.quiz_questions) /\ IsArray(generatedData.quiz_questions)
  THEN "quizzes" ELSE "done"

AfterNotes(generatedData) ==
  IF Truthy(generatedData.flashcards) /\ IsArray(generatedData.flashcards)
  THEN "flashcards" ELSE AfterFlashcards(generatedData)

AfterMaterial(generatedData) ==
  IF Truthy(generatedData.key_points) \/ Truthy(generatedData.examples)
  THEN "notes" ELSE AfterNotes(generatedData)

\* the rows each insert sends
MaterialRow(r, id) ==
  [id |-> id, user_id |-> user, title |-> r.materialTitle, content |-> r.input,
   source_type |-> r.sourceType, summary |-> r.generatedData.summary]

NoteRow(r) ==
  [user_id |-> user, material_id |-> r.material,
   title |-> r.materialTitle \o <<" - Notes">>,
   content |-> r.generatedData.summary,
   key_points |-> r.generatedData.key_points,
   examples |-> r.generatedData.examples]

FlashcardRow(r, card) ==
  [user_id |-> user, material_id |-> r.material, question |-> card.question,
   answer |-> card.answer,
   difficulty |-> IF card.difficulty = Undefined \/ card.difficulty = ""
                  THEN "medium" ELSE card.difficulty]

\* Mutant of flashcardsData: only the first card is sent.
flashcardsData_First(r) ==
  [i \in 1..(IF r.generatedData.flashcards.vals = <<>> THEN 0 ELSE 1) |->
     FlashcardRow(r, r.generatedData.flashcards.vals[i])]

flashcardsData(r) ==
  [i \in 1..Len(r.generatedData.flashcards.vals) |->
     FlashcardRow(r, r.generatedData.flashcards.vals[i])]

\* Mutant of QuizRow: the quiz does not refer to the material.
QuizRow_NoMaterial(r, id) ==
  [id |-> id, user_id |-> user, material_id |-> 0,
   title |-> r.materialTitle \o <<" - Quiz">>]

QuizRow(r, id) ==
  [id |-> id, user_id |-> user, material_id |-> r.material,
   title |-> r.materialTitle \o <<" - Quiz">>]

QuestionRow(r, q) ==
  [quiz_id |-> r.quiz, question_text |-> q.question, question_type |-> q.type,
   options |-> IF Truthy(q.options) THEN q.options ELSE JsonNull,
   correct_answer |-> q.correct_answer,
   explanation |-> IF Truthy(q.explanation) THEN q.explanation ELSE JsonNull]

questionsData(r) ==
  [i \in 1..Len(r.generatedData.quiz_questions.vals) |->
     QuestionRow(r, r.generatedData.quiz_questions.vals[i])]

\* the messages of the two paths
ValidationMessage(fn) ==
  IF fn = "generate-from-topic" THEN "Please enter a topic"
  ELSE "Please enter some text to analyze"
FailureFallback(fn) ==
  IF fn = "generate-from-topic" THEN "Failed to generate materials"
  ELSE "Failed to process material"
SuccessMessage(fn) ==
  IF fn = "generate-from-topic" THEN "Study materials created successfully!"
  ELSE "Material processed successfully!"

\* ---------------------------------------------------------------- actions
\* onChange of the topic input and of the text area (disabled while loading)
setTopic(value) ==
  /\ route = "/materials" /\ ~generating
  /\ topic' = value
  /\ UNCHANGED <<text, generating, progress, route, run, timers, storage,
                 log, runs, user, toast, quizVars, deleteVars,
                 notesVars, rlsVars, tutorVars>>

setText(value) ==
  /\ route = "/materials" /\ ~generating
  /\ text' = value
  /\ UNCHANGED <<topic, generating, progress, route, run, timers, storage,
                 log, runs, user, toast, quizVars, deleteVars,
                 notesVars, rlsVars, tutorVars>>

\* Mutant of Generate: the test of the trimmed input is missing.
Generate_NoValidation(fn, input, firstStep) ==
  /\ route = "/materials" /\ ~generating
  /\ runs < MaxRuns
  /\ generating' = TRUE
  /\ progress' = <<firstStep>>
  /\ run' = [pc |-> "invoke", fn |-> fn, input |-> input, id |-> runs + 1,
             materialTitle |-> <<>>, sourceType |-> "none",
             generatedData |-> NoData, material |-> 0, quiz |-> 0]
  /\ runs' = runs + 1
  /\ UNCHANGED <<toast, log>>
  /\ UNCHANGED <<text, topic, route, timers, storage, user, quizVars, deleteVars,
                 notesVars, rlsVars, tutorVars>>

\* handleTopicGenerate and handleTextSubmit up to the await of the
\* invocation. The buttons are disabled while loading; they are also
\* disabled while the input is blank, a test the handlers repeat.
\* Mutant of Generate: setLoading(true) is missing.
Generate_NoLoading(fn, input, firstStep) ==
  /\ route = "/materials" /\ ~generating
  /\ IF Trim(input) = <<>>
     THEN /\ toast' = Toast("error", ValidationMessage(fn))
          /\ UNCHANGED <<generating, progress, run, log, runs>>
     ELSE /\ runs < MaxRuns
          /\ progress' = <<firstStep>>
          /\ run' = [Idle EXCEPT !.pc = "invoke", !.fn = fn, !.input = input,
                                 !.id = runs + 1]
          /\ runs' = runs + 1
          /\ UNCHANGED <<toast, log, generating>>
  /\ UNCHANGED <<text, topic, route, timers, storage, user, quizVars, deleteVars,
                 notesVars, rlsVars, tutorVars>>

Generate(fn, input, firstStep) ==
  /\ route = "/materials" /\ ~generating
  /\ IF Trim(input) = <<>>
     THEN /\ toast' = Toast("error", ValidationMessage(fn))
          /\ UNCHANGED <<generating, progress, run, log, runs>>
     ELSE /\ runs < MaxRuns
          /\ generating' = TRUE
          /\ progress' = <<firstStep>>
          /\ run' = [Idle EXCEPT !.pc = "invoke", !.fn = fn, !.input = input,
                                 !.id = runs + 1]
          /\ runs' = runs + 1
          /\ UNCHANGED <<toast, log>>
  /\ UNCHANGED <<text, topic, route, timers, storage, user, quizVars, deleteVars,
                 notesVars, rlsVars, tutorVars>>

handleTopicGenerate ==
  Generate("generate-from-topic", topic, "Generating content from AI...")

handleTextSubmit ==
  Generate("process-material", text, "Analyzing your material...")

\* catch and finally of the handlers: one error notification
Fail(message) ==
  /\ toast' = Toast("error", ErrorMessage(message, FailureFallback(run.fn)))
  /\ progress' = <<>>
  /\ generating' = FALSE
  /\ run' = Idle
  /\ UNCHANGED timers

\* saveMaterialAndContent has returned: the last progress line, the
\* setTimeout, and finally
Finish(r, steps) ==
  /\ progress' = Append(steps, "All done! Your materials are ready.")
  /\ timers' = timers (+) SetToBag({[fn |-> r.fn, run |-> r.id]})
  /\ generating' = FALSE
  /\ run' = Idle
  /\ UNCHANGED toast

\* saveMaterialAndContent goes on after a write: it issues the next write
\* and waits for it, or returns true
Continue(r, next, lg) ==
  IF next = "done"
  THEN Finish(r, progress) /\ log' = lg
  ELSE /\ run' = [r EXCEPT !.pc = next]
       /\ log' = Append(lg, Event(r, "issue", next))
       /\ UNCHANGED <<generating, progress, timers, toast>>

\* The invocation resolves. On an error the handler throws; otherwise it
\* calls saveMaterialAndContent, which returns at once without a user and
\* else issues the insert into materials.
InvokeDone(upstream, delivered) ==
  /\ run.pc = "invoke"
  /\ LET result == IF delivered
                   THEN Invoke(EdgeFunction(run.fn, Trim(run.input), upstream))
                   ELSE [data |-> NoData, error |-> FunctionsFetchError]
         data == result.data
         topicPath == run.fn = "generate-from-topic"
         steps == Append(progress,
                         IF topicPath
                         THEN "Content generated! Saving to your workspace..."
                         ELSE "Creating study materials...")
         r == [run EXCEPT
                 !.materialTitle =
                    IF topicPath
                    THEN IF Truthy(data.title) THEN data.title.vals ELSE run.input
                    ELSE Substring(run.input, 0, 100) \o <<"...">>,
                 !.sourceType = IF topicPath THEN "ai_generated" ELSE "paste",
                 !.generatedData = data]
     IN IF result.error # NoError
        THEN Fail(result.error) /\ UNCHANGED log
        ELSE IF user = NoUser
        THEN Finish(r, steps) /\ UNCHANGED log
        ELSE /\ run' = [r EXCEPT !.pc = "materials"]
             /\ progress' = steps
             /\ log' = Append(log, Event(r, "issue", "materials"))
             /\ UNCHANGED <<generating, timers, toast>>
  /\ UNCHANGED <<text, topic, route, storage, runs, user, quizVars, deleteVars,
                 notesVars, rlsVars, tutorVars>>

\* what an awaited insert can do: resolve with the rows, resolve with an
\* error, or reject
WriteOutcomes == {"ok", "error", "reject"}
PostgrestError == "PostgrestError"
FetchRejected == "Failed to fetch"

\* The insert into materials completes: only here is the error looked at.
MaterialInsertDone(outcome) ==
  /\ run.pc = "materials"
  /\ LET id == Len(db_materials) + 1
         r == [run EXCEPT !.material = IF outcome = "ok" THEN id ELSE 0]
         lg == Append(log, Event(r, outcome, "materials"))
     IN IF outcome = "ok"
        THEN /\ db_materials' = Append(db_materials, MaterialRow(run, id))
             /\ Continue(r, AfterMaterial(run.generatedData), lg)
        ELSE /\ Fail(IF outcome = "error" THEN PostgrestError ELSE FetchRejected)
             /\ log' = lg
             /\ UNCHANGED db_materials
  /\ UNCHANGED <<text, topic, route, db_notes, db_flashcards, db_quizzes,
                 db_questions, runs, user, quizVars, deleteVars,
                 notesVars, rlsVars, tutorVars>>

\* The insert into notes completes: its result is not looked at.
NotesInsertDone(outcome) ==
  /\ run.pc = "notes"
  /\ LET lg == Append(log, Event(run, outcome, "notes"))
     IN IF outcome = "reject"
        THEN Fail(FetchRejected) /\ log' = lg /\ UNCHANGED db_notes
        ELSE /\ db_notes' = IF outcome = "ok"
                            THEN Append(db_notes, NoteRow(run)) ELSE db_notes
             /\ Continue(run, AfterNotes(run.generatedData), lg)
  /\ UNCHANGED <<text, topic, route, db_materials, db_flashcards, db_quizzes,
                 db_questions, runs, user, quizVars, deleteVars,
                 notesVars, rlsVars, tutorVars>>

\* Mutant of FlashcardsInsertDone: a rejected insert is compensated by
\* deleting the material of the run and the notes written for it.
FlashcardsInsertDone_Rollback(outcome) ==
  /\ run.pc = "flashcards"
  /\ LET lg == Append(log, Event(run, outcome, "flashcards"))
     IN IF outcome = "reject"
        THEN /\ Fail(FetchRejected) /\ log' = lg /\ UNCHANGED db_flashcards
             /\ db_materials' = SelectSeq(db_materials,
                                          LAMBDA row : row.id # run.material)
             /\ db_notes' = SelectSeq(db_notes,
                                      LAMBDA row : row.material_id # run.material)
        ELSE /\ db_flashcards' = IF outcome = "ok"
                                 THEN db_flashcards \o flashcardsData(run)
                                 ELSE db_flashcards
             /\ Continue(run, AfterFlashcards(run.generatedData), lg)
             /\ UNCHANGED <<db_materials, db_notes>>
  /\ UNCHANGED <<text, topic, route, db_quizzes,
                 db_questions, runs, user, quizVars, deleteVars,
                 notesVars, rlsVars, tutorVars>>

\* The insert into flashcards completes: its result is not looked at.
FlashcardsInsertDone(outcome) ==
  /\ run.pc = "flashcards"
  /\ LET lg == Append(log, Event(run, outcome, "flashcards"))
     IN IF outcome = "reject"
        THEN Fail(FetchRejected) /\ log' = lg /\ UNCHANGED db_flashcards
        ELSE /\ db_flashcards' = IF outcome = "ok"
                                 THEN db_flashcards \o flashcardsData(run)
                                 ELSE db_flashcards
             /\ Continue(run, AfterFlashcards(run.generatedData), lg)
  /\ UNCHANGED <<text, topic, route, db_materials, db_notes, db_quizzes,
                 db_questions, runs, user, quizVars, deleteVars,
                 notesVars, rlsVars, tutorVars>>

\* The insert into quizzes completes: only data is taken from the result,
\* and the questions are inserted if there is a quiz.
QuizInsertDone(outcome) ==
  /\ run.pc = "quizzes"
  /\ LET id == Len(db_quizzes) + 1
         r == [run EXCEPT !.quiz = IF outcome = "ok" THEN id ELSE 0]
         lg == Append(log, Event(r, outcome, "quizzes"))
     IN IF outcome = "reject"
        THEN Fail(FetchRejected) /\ log' = lg /\ UNCHANGED db_quizzes
        ELSE IF outcome = "ok"
        THEN /\ db_quizzes' = Append(db_quizzes, QuizRow(run, id))
             /\ Continue(r, "questions", lg)
        ELSE /\ Continue(run, "done", lg)
             /\ UNCHANGED db_quizzes
  /\ UNCHANGED <<text, topic, route, db_materials, db_notes, db_flashcards,
                 db_questions, runs, user, quizVars, deleteVars,
                 notesVars, rlsVars, tutorVars>>

\* The insert into questions completes: its result is not looked at.
QuestionsInsertDone(outcome) ==
  /\ run.pc = "questions"
  /\ LET lg == Append(log, Event(run, outcome, "questions"))
     IN IF outcome = "reject"
        THEN Fail(FetchRejected) /\ log' = lg /\ UNCHANGED db_questions
        ELSE /\ db_questions' = IF outcome = "ok"
                                THEN db_questions \o questionsData(run)
                                ELSE db_questions
             /\ Continue(run, "done", lg)
  /\ UNCHANGED <<text, topic, route, db_materials, db_notes, db_flashcards,
                 db_quizzes, runs, user, quizVars, deleteVars,
                 notesVars, rlsVars, tutorVars>>

\* The callback of setTimeout runs, 1500 ms after the handler finished.
TimerFire(t) ==
  /\ BagIn(t, timers)
  /\ timers' = timers (-) SetToBag({t})
  /\ toast' = Toast("success", SuccessMessage(t.fn))
  /\ text' = IF t.fn = "process-material" THEN <<>> ELSE text
  /\ route' = "/notes"
  /\ UNCHANGED <<topic, generating, progress, run, storage, log, runs, user,
                 quizVars, deleteVars,
                 notesVars, rlsVars, tutorVars>>

NextMaterials ==
  \/ \E value \in Inputs : setTopic(value)
  \/ \E value \in Inputs : setText(value)
  \/ handleTopicGenerate
  \/ handleTextSubmit
  \/ \E upstream \in Upstreams, delivered \in BOOLEAN :
       InvokeDone(upstream, delivered)
  \/ \E outcome \in WriteOutcomes : MaterialInsertDone(outcome)
  \/ \E outcome \in WriteOutcomes : NotesInsertDone(outcome)
  \/ \E outcome \in WriteOutcomes : FlashcardsInsertDone(outcome)
  \/ \E outcome \in WriteOutcomes : QuizInsertDone(outcome)
  \/ \E outcome \in WriteOutcomes : QuestionsInsertDone(outcome)
  \/ \E t \in BagToSet(timers) : TimerFire(t)

SpecMaterials == Init /\ [][NextMaterials]_vars

\* ----------------------------------------------------- the user changes
\* useAuth().user changes to next (sign-in, sign-out, the end of the
\* session) and the page renders again. A handler that is running keeps the
\* user of the render it was started in, so the change is taken between
\* handlers. The effect of the Quizzes page runs fetchQuizzes again, which
\* returns at once without a user and does not touch loading before its
\* request.
onAuthStateChange(next) ==
  /\ next # user
  /\ run.pc = "idle"
  /\ user' = next
  /\ fetchReq' = (fetchReq \/ next # NoUser)
  /\ UNCHANGED <<quizzes, selectedQuiz, questions, currentQuestionIndex,
                 userAnswers, showResults, loading, quiz_attempts, loadReq,
                 submitReq, session, resultsFrom>>
  /\ UNCHANGED <<toast, materialsVars, deleteVars, notesVars, rlsVars, tutorVars>>

\* The Materials page while the user may sign out and in.
NextMaterialsAuth ==
  \/ NextMaterials
  \/ \E next \in {NoUser, "u1"} : onAuthStateChange(next)

SpecMaterialsAuth == Init /\ [][NextMaterialsAuth]_vars

\* The Quizzes page mounted without a user, who then signs in.
InitSignedOut == Mounted(NoUser) /\ cascade = TRUE

NextSignedOut ==
  \/ Next
  \/ onAuthStateChange("u1")

SpecSignedOut == InitSignedOut /\ [][NextSignedOut]_vars

\* ======================================================================
\* Deletion: a quiz on the Quizzes page, a note on the Notes page
\* ======================================================================

\* ------------------------------------------------------- the Quizzes page
\* quizzes.filter(quiz => quiz.id !== quizToDelete)
FilterQuizzes(list, quizId) == SelectSeq(list, LAMBDA id : id # quizId)

\* A handleDeleteConfirm call that is running: the quizToDelete and the
\* quizzes of its closure, and the table whose delete it awaits.
DeleteCall(quizId, list, pc) == [quizToDelete |-> quizId, quizzes |-> list, pc |-> pc]

\* handleDeleteClick: the trash button of a card of the list. The dialog is
\* modal: the list takes no click while the dialog is open.
handleDeleteClick(quizId) ==
  /\ ViewBrowsing /\ ~deleteDialogOpen
  /\ \E i \in 1..Len(quizzes) : quizzes[i] = quizId
  /\ quizToDelete' = quizId
  /\ deleteDialogOpen' = TRUE
  /\ UNCHANGED <<deleting, deleteReq, table_quizzes, table_questions, cascade>>
  /\ UNCHANGED <<user, toast, quizVars, materialsVars, notesVars, rlsVars, tutorVars>>

\* onOpenChange={setDeleteDialogOpen}: the dialog asks to be closed (the
\* Escape key). The dialog is rendered in the list view only.
onOpenChange(open) ==
  /\ ViewBrowsing /\ deleteDialogOpen
  /\ deleteDialogOpen' = open
  /\ UNCHANGED <<quizToDelete, deleting, deleteReq, table_quizzes,
                 table_questions, cascade>>
  /\ UNCHANGED <<user, toast, quizVars, materialsVars, notesVars, rlsVars, tutorVars>>

\* <AlertDialogCancel disabled={deleting}>
Cancel ==
  /\ ~deleting
  /\ onOpenChange(FALSE)

\* Mutant of handleDeleteConfirm: setDeleting(true) is missing.
handleDeleteConfirm_NoFlag(closes) ==
  /\ ViewBrowsing /\ deleteDialogOpen /\ ~deleting
  /\ quizToDelete # NoQuiz
  /\ deleteReq' = deleteReq \cup {DeleteCall(quizToDelete, quizzes, "questions")}
  /\ deleteDialogOpen' = ~closes
  /\ UNCHANGED <<deleting, quizToDelete, table_quizzes, table_questions, cascade>>
  /\ UNCHANGED <<user, toast, quizVars, materialsVars, notesVars, rlsVars, tutorVars>>

\* handleDeleteConfirm up to its first await: <AlertDialogAction
\* onClick={handleDeleteConfirm} disabled={deleting}>. The questions delete
\* is issued. closes: the dialog closes itself on the click of its action.
handleDeleteConfirm(closes) ==
  /\ ViewBrowsing /\ deleteDialogOpen /\ ~deleting
  /\ quizToDelete # NoQuiz
  /\ deleting' = TRUE
  /\ deleteReq' = deleteReq \cup {DeleteCall(quizToDelete, quizzes, "questions")}
  /\ deleteDialogOpen' = ~closes
  /\ UNCHANGED <<quizToDelete, table_quizzes, table_questions, cascade>>
  /\ UNCHANGED <<user, toast, quizVars, materialsVars, notesVars, rlsVars, tutorVars>>

\* catch and finally of handleDeleteConfirm
DeleteFailed(req) ==
  /\ toast' = Toast("error", "Failed to delete quiz")
  /\ deleting' = FALSE
  /\ deleteReq' = deleteReq \ {req}
  /\ UNCHANGED <<quizzes, deleteDialogOpen, quizToDelete>>

\* handleDeleteConfirm from the first await to the second: the questions
\* delete resolves (the rows the policies let the user delete are gone) and
\* the quizzes delete is issued, or it resolves with an error or rejects.
QuestionsDeleteDone(req, outcome) ==
  /\ req \in deleteReq /\ req.pc = "questions"
  /\ IF outcome = "ok"
     THEN /\ table_questions' =
               DeleteFrom("questions", table_questions,
                          Eq("quiz_id", req.quizToDelete),
                          user, table_quizzes)
          /\ deleteReq' = (deleteReq \ {req}) \cup
                            {DeleteCall(req.quizToDelete, req.quizzes, "quizzes")}
          /\ UNCHANGED <<toast, deleting, quizzes, deleteDialogOpen, quizToDelete>>
     ELSE DeleteFailed(req) /\ UNCHANGED table_questions
  /\ UNCHANGED <<table_quizzes, cascade>>
  /\ UNCHANGED <<user, selectedQuiz, questions, currentQuestionIndex,
                 userAnswers, showResults, loading, quiz_attempts, fetchReq,
                 loadReq, submitReq, session, resultsFrom>>
  /\ UNCHANGED <<materialsVars, notesVars, rlsVars, tutorVars>>

\* handleDeleteConfirm from the second await to the end: the quizzes delete
\* resolves (the row is gone, and with on delete cascade the questions that
\* refer to it), or it resolves with an error or rejects.
QuizDeleteDone(req, outcome) ==
  /\ req \in deleteReq /\ req.pc = "quizzes"
  /\ IF outcome = "ok"
     THEN LET rows == DeleteFrom("quizzes", table_quizzes,
                                 Eq("id", req.quizToDelete),
                                 user, table_quizzes)
          IN /\ table_quizzes' = rows
             /\ table_questions' =
                  IF cascade /\ rows # table_quizzes
                  THEN OnDeleteCascade(table_questions, req.quizToDelete)
                  ELSE table_questions
             /\ quizzes' = FilterQuizzes(req.quizzes, req.quizToDelete)
             /\ toast' = Toast("success", "Quiz deleted successfully!")
             /\ deleteDialogOpen' = FALSE
             /\ quizToDelete' = NoQuiz
             /\ deleting' = FALSE
             /\ deleteReq' = deleteReq \ {req}
     ELSE DeleteFailed(req) /\ UNCHANGED <<table_quizzes, table_questions>>
  /\ UNCHANGED cascade
  /\ UNCHANGED <<user, selectedQuiz, questions, currentQuestionIndex,
                 userAnswers, showResults, loading, quiz_attempts, fetchReq,
                 loadReq, submitReq, session, resultsFrom>>
  /\ UNCHANGED <<materialsVars, notesVars, rlsVars, tutorVars>>

\* --------------------------------------------------------- the Notes page
\* text.trim()
TrimText(t) == IF t = " " THEN "" ELSE t
MaxSaves == 1                   \* update requests sent from the page
Titles == {" ", "Cells II"}     \* what the user types into the title input
Contents == {"c1 II"}           \* what the user types into the content area

Shown(noteId) == \E i \in 1..Len(notes) : notes[i].id = noteId

\* fetchNotes, from the await to the end
FetchNotesDone(outcome) ==
  /\ notesFetchReq
  /\ notesFetchReq' = FALSE
  /\ IF outcome = "data"
     THEN notes' = SelectFrom("notes", table_notes,
                              Eq("user_id", user), user, <<>>)
     ELSE UNCHANGED notes
  /\ notesLoading' = FALSE
  /\ UNCHANGED <<editingId, editTitle, editContent, saving, notesDialogOpen,
                 noteToDelete, notesDeleting, saveReq, noteDeleteReq, table_notes, saves>>
  /\ UNCHANGED <<user, toast, quizVars, materialsVars, deleteVars, rlsVars, tutorVars>>

\* handleEdit: the Edit button of a card that is not being edited
handleEdit(note) ==
  /\ ~notesLoading /\ ~notesDialogOpen
  /\ \E i \in 1..Len(notes) : notes[i] = note
  /\ editingId # note.id
  /\ editingId' = note.id
  /\ editTitle' = note.title
  /\ editContent' = note.content
  /\ UNCHANGED <<notes, notesLoading, saving, notesDialogOpen, noteToDelete,
                 notesDeleting, notesFetchReq, saveReq, noteDeleteReq, table_notes, saves>>
  /\ UNCHANGED <<user, toast, quizVars, materialsVars, deleteVars, rlsVars, tutorVars>>

\* the inputs of the card that is being edited
setEditTitle(value) ==
  /\ ~notesLoading /\ ~notesDialogOpen /\ Shown(editingId)
  /\ editTitle' = value
  /\ UNCHANGED <<notes, notesLoading, editingId, editContent, saving,
                 notesDialogOpen, noteToDelete, notesDeleting, notesFetchReq,
                 saveReq, noteDeleteReq, table_notes, saves>>
  /\ UNCHANGED <<user, toast, quizVars, materialsVars, deleteVars, rlsVars, tutorVars>>

setEditContent(value) ==
  /\ ~notesLoading /\ ~notesDialogOpen /\ Shown(editingId)
  /\ editContent' = value
  /\ UNCHANGED <<notes, notesLoading, editingId, editTitle, saving,
                 notesDialogOpen, noteToDelete, notesDeleting, notesFetchReq,
                 saveReq, noteDeleteReq, table_notes, saves>>
  /\ UNCHANGED <<user, toast, quizVars, materialsVars, deleteVars, rlsVars, tutorVars>>

\* handleCancelEdit: the Cancel button of the card, disabled={saving}
handleCancelEdit ==
  /\ ~notesLoading /\ ~notesDialogOpen /\ Shown(editingId) /\ ~saving
  /\ editingId' = NoNote
  /\ editTitle' = ""
  /\ editContent' = ""
  /\ UNCHANGED <<notes, notesLoading, saving, notesDialogOpen, noteToDelete,
                 notesDeleting, notesFetchReq, saveReq, noteDeleteReq, table_notes, saves>>
  /\ UNCHANGED <<user, toast, quizVars, materialsVars, deleteVars, rlsVars, tutorVars>>

\* A handleSave call that is running: its argument and its closure.
SaveCall(noteId) ==
  [noteId |-> noteId, editTitle |-> editTitle, editContent |-> editContent,
   notes |-> notes]

\* handleSave up to its await: the Save button of the card, disabled={saving}
handleSave(noteId) ==
  /\ ~notesLoading /\ ~notesDialogOpen /\ Shown(noteId) /\ ~saving
  /\ editingId = noteId
  /\ IF TrimText(editTitle) = "" \/ TrimText(editContent) = ""
     THEN /\ toast' = Toast("error", "Title and content cannot be empty")
          /\ UNCHANGED <<saving, saveReq, saves>>
     ELSE /\ saves < MaxSaves
          /\ saving' = TRUE
          /\ saveReq' = saveReq \cup {SaveCall(noteId)}
          /\ saves' = saves + 1
          /\ UNCHANGED toast
  /\ UNCHANGED <<notes, notesLoading, editingId, editTitle, editContent,
                 notesDialogOpen, noteToDelete, notesDeleting, notesFetchReq,
                 noteDeleteReq, table_notes>>
  /\ UNCHANGED <<user, quizVars, materialsVars, deleteVars, rlsVars, tutorVars>>

\* { ...note, title: editTitle, content: editContent } for the note noteId
MapNotes(list, noteId, title, content) ==
  [i \in 1..Len(list) |->
     IF list[i].id = noteId
     THEN [list[i] EXCEPT !.title = title, !.content = content]
     ELSE list[i]]

\* update notes set title, content where id = noteId, as uid
UpdateNotes(rows, noteId, title, content, uid) ==
  [i \in 1..Len(rows) |->
     IF rows[i].id = noteId /\ Permitted("notes", "UPDATE", uid, rows[i], <<>>)
     THEN [rows[i] EXCEPT !.title = title, !.content = content]
     ELSE rows[i]]

\* handleSave from its await to the end
SaveDone(req, outcome) ==
  /\ req \in saveReq
  /\ saveReq' = saveReq \ {req}
  /\ IF outcome = "ok"
     THEN /\ table_notes' = UpdateNotes(table_notes, req.noteId, req.editTitle,
                                        req.editContent, user)
          /\ notes' = MapNotes(req.notes, req.noteId, req.editTitle,
                               req.editContent)
          /\ toast' = Toast("success", "Note updated successfully!")
          /\ editingId' = NoNote
          /\ editTitle' = ""
          /\ editContent' = ""
     ELSE /\ toast' = Toast("error", "Failed to update note")
          /\ UNCHANGED <<table_notes, notes, editingId, editTitle, editContent>>
  /\ saving' = FALSE
  /\ UNCHANGED <<notesLoading, notesDialogOpen, noteToDelete, notesDeleting,
                 notesFetchReq, noteDeleteReq, saves>>
  /\ UNCHANGED <<user, quizVars, materialsVars, deleteVars, rlsVars, tutorVars>>

\* handleDeleteClick of Notes.tsx: the trash button of a card that is not
\* being edited
Notes_handleDeleteClick(noteId) ==
  /\ ~notesLoading /\ ~notesDialogOpen /\ Shown(noteId)
  /\ editingId # noteId
  /\ noteToDelete' = noteId
  /\ notesDialogOpen' = TRUE
  /\ UNCHANGED <<notes, notesLoading, editingId, editTitle, editContent, saving,
                 notesDeleting, notesFetchReq, saveReq, noteDeleteReq, table_notes, saves>>
  /\ UNCHANGED <<user, toast, quizVars, materialsVars, deleteVars, rlsVars, tutorVars>>

\* onOpenChange={setDeleteDialogOpen} of Notes.tsx
Notes_onOpenChange(open) ==
  /\ ~notesLoading /\ notesDialogOpen
  /\ notesDialogOpen' = open
  /\ UNCHANGED <<notes, notesLoading, editingId, editTitle, editContent, saving,
                 noteToDelete, notesDeleting, notesFetchReq, saveReq,
                 noteDeleteReq, table_notes, saves>>
  /\ UNCHANGED <<user, toast, quizVars, materialsVars, deleteVars, rlsVars, tutorVars>>

\* <AlertDialogCancel disabled={deleting}> of Notes.tsx
Notes_Cancel ==
  /\ ~notesDeleting
  /\ Notes_onOpenChange(FALSE)

\* A handleDeleteConfirm call of Notes.tsx that is running: its closure.
NoteDeleteCall == [noteToDelete |-> noteToDelete, notes |-> notes]

\* handleDeleteConfirm of Notes.tsx up to its await
Notes_handleDeleteConfirm(closes) ==
  /\ ~notesLoading /\ notesDialogOpen /\ ~notesDeleting
  /\ noteToDelete # NoNote
  /\ notesDeleting' = TRUE
  /\ noteDeleteReq' = noteDeleteReq \cup {NoteDeleteCall}
  /\ notesDialogOpen' = ~closes
  /\ UNCHANGED <<notes, notesLoading, editingId, editTitle, editContent, saving,
                 noteToDelete, notesFetchReq, saveReq, table_notes, saves>>
  /\ UNCHANGED <<user, toast, quizVars, materialsVars, deleteVars, rlsVars, tutorVars>>

\* notes.filter(note => note.id !== noteToDelete)
FilterNotes(list, noteId) == SelectSeq(list, LAMBDA note : note.id # noteId)

\* handleDeleteConfirm of Notes.tsx from its await to the end
NoteDeleteDone(req, outcome) ==
  /\ req \in noteDeleteReq
  /\ noteDeleteReq' = noteDeleteReq \ {req}
  /\ IF outcome = "ok"
     THEN /\ table_notes' = DeleteFrom("notes", table_notes,
                                       Eq("id", req.noteToDelete),
                                       user, <<>>)
          /\ notes' = FilterNotes(req.notes, req.noteToDelete)
          /\ toast' = Toast("success", "Note deleted successfully!")
          /\ notesDialogOpen' = FALSE
          /\ noteToDelete' = NoNote
     ELSE /\ toast' = Toast("error", "Failed to delete note")
          /\ UNCHANGED <<table_notes, notes, notesDialogOpen, noteToDelete>>
  /\ notesDeleting' = FALSE
  /\ UNCHANGED <<notesLoading, editingId, editTitle, editContent, saving,
                 notesFetchReq, saveReq, saves>>
  /\ UNCHANGED <<user, quizVars, materialsVars, deleteVars, rlsVars, tutorVars>>

\* ---------------------------------------------------------------- steps
Outcomes == {"ok", "error", "reject"}

\* A session opens one of the two pages: the Quizzes page acts while the
\* Notes page has not been opened, and the other way round.
OnQuizzes == notesFetchReq
OnNotes == fetchReq

NextDeletion ==
  \/ OnQuizzes /\ \E outcome \in {"data", "error"} : FetchQuizzesDone(outcome)
  \/ OnQuizzes /\ \E i \in 1..Len(quizzes) : LoadQuizStart(quizzes[i])
  \/ OnQuizzes /\ \E quiz \in loadReq, outcome \in {"data", "error"} :
                    LoadQuizDone(quiz, outcome)
  \/ OnQuizzes /\ resetQuiz
  \/ OnQuizzes /\ \E i \in 1..Len(quizzes) : handleDeleteClick(quizzes[i])
  \/ OnQuizzes /\ onOpenChange(FALSE)
  \/ OnQuizzes /\ Cancel
  \/ OnQuizzes /\ \E closes \in BOOLEAN : handleDeleteConfirm(closes)
  \/ OnQuizzes /\ \E req \in deleteReq, outcome \in Outcomes :
                    QuestionsDeleteDone(req, outcome)
  \/ OnQuizzes /\ \E req \in deleteReq, outcome \in Outcomes :
                    QuizDeleteDone(req, outcome)
  \/ OnNotes /\ \E outcome \in {"data", "error"} : FetchNotesDone(outcome)
  \/ OnNotes /\ \E i \in 1..Len(notes) : handleEdit(notes[i])
  \/ OnNotes /\ \E value \in Titles : setEditTitle(value)
  \/ OnNotes /\ \E value \in Contents : setEditContent(value)
  \/ OnNotes /\ handleCancelEdit
  \/ OnNotes /\ \E i \in 1..Len(notes) : handleSave(notes[i].id)
  \/ OnNotes /\ \E req \in saveReq, outcome \in Outcomes : SaveDone(req, outcome)
  \/ OnNotes /\ \E i \in 1..Len(notes) : Notes_handleDeleteClick(notes[i].id)
  \/ OnNotes /\ Notes_onOpenChange(FALSE)
  \/ OnNotes /\ Notes_Cancel
  \/ OnNotes /\ \E closes \in BOOLEAN : Notes_handleDeleteConfirm(closes)
  \/ OnNotes /\ \E req \in noteDeleteReq, outcome \in Outcomes :
                  NoteDeleteDone(req, outcome)

\* The deletion of quizzes and of notes on the storage of the migration, and
\* on a storage whose questions table has no on delete cascade.
SpecDeletion == Init /\ [][NextDeletion]_vars
InitNoCascade == InitPages /\ cascade = FALSE
SpecDeletionNoCascade == InitNoCascade /\ [][NextDeletion]_vars

\* ======================================================================
\* The storage behind its row level security
\* ======================================================================
MaxOps == 2          \* statements run

Ids(rows) == { rows[i].id : i \in 1..Len(rows) }
Rows(rows) == { rows[i] : i \in 1..Len(rows) }

\* the foreign key of a row holds: checked without row level security
ForeignKeyHolds(table, row, tb) ==
  \/ ParentTable(table) = Null
  \/ ParentOf(table, row) = Null /\ ParentTable(table) = "materials"
  \/ ParentOf(table, row) \in Ids(tb[ParentTable(table)])

\* on delete cascade, without row level security: the tables once the rows
\* ids of table are deleted
Cascade(tb, table, ids) ==
  LET materialIds == IF table = "materials" THEN ids ELSE {}
      quizIds == (IF table = "quizzes" THEN ids ELSE {})
                   \cup { row.id : row \in { r \in Rows(tb.quizzes) :
                                                r.material_id \in materialIds } }
      Gone(t) ==
        IF t = "materials" THEN materialIds
        ELSE IF t = "quizzes" THEN quizIds
        ELSE (IF table = t THEN ids ELSE {})
               \cup { row.id : row \in { r \in Rows(tb[t]) :
                                            ParentOf(t, r) \in
                                              (IF ParentTable(t) = "materials"
                                               THEN materialIds ELSE quizIds) } }
  IN [t \in TableNames |-> SelectSeq(tb[t], LAMBDA row : row.id \notin Gone(t))]

\* the last statement: a select of table that returned rows, or a write
Op(uid, command, table, rows) ==
  [uid |-> uid, command |-> command, table |-> table, rows |-> rows]

\* select * from table, run by uid
RlsSelect(uid, table) ==
  /\ ops < MaxOps
  /\ lastOp' = Op(uid, "SELECT", table,
                  SelectFrom(table, tables[table], All, uid,
                             tables.quizzes))
  /\ ops' = ops + 1
  /\ UNCHANGED tables
  /\ UNCHANGED <<user, toast, quizVars, materialsVars, deleteVars, notesVars,
                 tutorVars>>

\* insert into table, run by uid: the row must pass the with check of the
\* insert policy and its foreign key, else the statement fails
RlsInsert(uid, table, owner, parent) ==
  /\ ops < MaxOps
  /\ LET row == NewRow(table, ToString(ops + 10), owner, parent)
     IN /\ tables' =
             IF /\ Permitted(table, "INSERT", uid, row, tables.quizzes)
                /\ ForeignKeyHolds(table, row, tables)
             THEN [tables EXCEPT ![table] = Append(@, row)]
             ELSE tables
        /\ lastOp' = Op(uid, "WRITE", Null, <<>>)
  /\ ops' = ops + 1
  /\ UNCHANGED <<user, toast, quizVars, materialsVars, deleteVars, notesVars,
                 tutorVars>>

\* what an update sets: another column, the owner, the reference
Changed(table, row, change) ==
  IF change[1] = "val" THEN [row EXCEPT !.val = 1]
  ELSE IF change[1] = "user_id" /\ table # "questions"
  THEN [row EXCEPT !.user_id = change[2]]
  ELSE IF change[1] = "parent" /\ ParentTable(table) = "materials"
  THEN [row EXCEPT !.material_id = change[2]]
  ELSE IF change[1] = "parent" /\ ParentTable(table) = "quizzes"
  THEN [row EXCEPT !.quiz_id = change[2]]
  ELSE row

Changes(table, tb) ==
  {<<"val", Null>>} \cup { <<"user_id", u>> : u \in Users }
    \cup (IF ParentTable(table) = Null THEN {}
          ELSE { <<"parent", id>> : id \in Ids(tb[ParentTable(table)]) })

\* update table set ... where id = id, run by uid: the rows the using of the
\* update policy lets through are updated; the new row must pass the same
\* expression and its foreign key, else the statement fails
RlsUpdate(uid, table, id, change) ==
  /\ ops < MaxOps
  /\ LET Hit(row) == row.id = id /\ Permitted(table, "UPDATE", uid, row, tables.quizzes)
         new == [i \in 1..Len(tables[table]) |->
                   IF Hit(tables[table][i])
                   THEN Changed(table, tables[table][i], change)
                   ELSE tables[table][i]]
         ok == \A i \in 1..Len(new) :
                 Hit(tables[table][i]) =>
                   /\ Permitted(table, "UPDATE", uid, new[i], tables.quizzes)
                   /\ ForeignKeyHolds(table, new[i], tables)
     IN /\ tables' = IF ok THEN [tables EXCEPT ![table] = new] ELSE tables
        /\ lastOp' = Op(uid, "WRITE", Null, <<>>)
  /\ ops' = ops + 1
  /\ UNCHANGED <<user, toast, quizVars, materialsVars, deleteVars, notesVars,
                 tutorVars>>

\* delete from table where id = id, run by uid: the rows the using of the
\* delete policy lets through are deleted, and with them the rows that refer
\* to them
RlsDelete(uid, table, id) ==
  /\ ops < MaxOps
  /\ LET stay == DeleteFrom(table, tables[table], Eq("id", id),
                            uid, tables.quizzes)
     IN tables' = Cascade(tables, table, Ids(tables[table]) \ Ids(stay))
  /\ lastOp' = Op(uid, "WRITE", Null, <<>>)
  /\ ops' = ops + 1
  /\ UNCHANGED <<user, toast, quizVars, materialsVars, deleteVars, notesVars,
                 tutorVars>>

NextStorage ==
  \/ \E uid \in Users, table \in TableNames : RlsSelect(uid, table)
  \/ \E uid \in Users, table \in TableNames, owner \in Users :
       \E parent \in {Null} \cup (IF ParentTable(table) = Null THEN {}
                                  ELSE Ids(tables[ParentTable(table)])) :
         RlsInsert(uid, table, owner, parent)
  \/ \E uid \in Users, table \in TableNames :
       \E id \in Ids(tables[table]), change \in Changes(table, tables) :
         RlsUpdate(uid, table, id, change)
  \/ \E uid \in Users, table \in TableNames :
       \E id \in Ids(tables[table]) : RlsDelete(uid, table, id)

SpecStorage == Init /\ [][NextStorage]_vars

\* ======================================================================
\* The AI tutor chat
\* ======================================================================
MaxSends == 3        \* requests sent from the chat

\* Message: { role, content }; a content is a sequence of pieces of text
Message(role, content) == [role |-> role, content |-> content]

\* error.message of a failed invocation, as its words; none when the
\* invocation has resolved with data
NoWords == <<>>
TutorErrors ==
  { <<"Edge", "Function", "returned", "a", "non-2xx", "status", "code">>,
    <<"Failed", "to", "send", "a", "request", "to", "the", "Edge", "Function">> }

\* error.message?.includes(part), on the words of the message
Includes(message, part) == \E i \in DOMAIN message : message[i] = part

\* the content of the assistant message built in catch
ErrorContent(message) ==
  IF Includes(message, "network") \/ Includes(message, "fetch")
  THEN <<"Oops! Looks like there's a connection issue. Check your internet and try again?">>
  ELSE IF Includes(message, "timeout")
  THEN <<"That's taking longer than expected. Mind trying again?">>
  ELSE IF Includes(message, "unauthorized") \/ Includes(message, "auth")
  THEN <<"I need you to be logged in to help you. Could you check your session?">>
  ELSE <<"Hmm, I couldn't process that - want to try asking in a different way?">>

\* data?.reply?.trim() || "I received your message but ..."
ReplyContent(reply) ==
  IF Trim(reply) = <<>>
  THEN <<"I received your message but couldn't generate a response. Could you try rephrasing that?">>
  ELSE Trim(reply)

\* onChange of the input, which is disabled while loading
setInput(value) ==
  /\ ~chatLoading
  /\ chatInput' = value
  /\ UNCHANGED <<messages, chatLoading, mode, chatReq, sends>>
  /\ UNCHANGED <<user, toast, quizVars, materialsVars, deleteVars, notesVars,
                 rlsVars>>

\* the three buttons of the mode selector
TutorModes == {"socratic", "stepbystep", "examcoach"}

\* onClick={() => setMode(m.id)}
setMode(m) ==
  /\ mode' = m
  /\ UNCHANGED <<messages, chatInput, chatLoading, chatReq, sends>>
  /\ UNCHANGED <<user, toast, quizVars, materialsVars, deleteVars, notesVars,
                 rlsVars>>

\* Mutant of handleSend: setLoading(true) is missing.
handleSend_NoLoading ==
  /\ ~chatLoading
  /\ IF Trim(chatInput) = <<>>
     THEN UNCHANGED <<messages, chatInput, chatLoading, chatReq, sends>>
     ELSE /\ sends < MaxSends
          /\ messages' = Append(messages, Message("user", Trim(chatInput)))
          /\ chatInput' = <<>>
          /\ chatReq' = chatReq + 1
          /\ sends' = sends + 1
          /\ UNCHANGED chatLoading
  /\ UNCHANGED mode
  /\ UNCHANGED <<user, toast, quizVars, materialsVars, deleteVars, notesVars,
                 rlsVars>>

\* handleSend up to its await: the Enter key in the input (disabled while
\* loading) or the send button (disabled while loading or while the input
\* is blank). The handler returns at once for a blank input. The mode and
\* the messages go into the body of the request and nowhere else.
handleSend ==
  /\ ~chatLoading
  /\ IF Trim(chatInput) = <<>>
     THEN UNCHANGED <<messages, chatInput, chatLoading, chatReq, sends>>
     ELSE /\ sends < MaxSends
          /\ messages' = Append(messages, Message("user", Trim(chatInput)))
          /\ chatInput' = <<>>
          /\ chatLoading' = TRUE
          /\ chatReq' = chatReq + 1
          /\ sends' = sends + 1
  /\ UNCHANGED mode
  /\ UNCHANGED <<user, toast, quizVars, materialsVars, deleteVars, notesVars,
                 rlsVars>>

\* handleSend from its await to the end: the invocation has resolved with
\* data.reply = reply, or with an error whose message is error.
SendDone(reply, error) ==
  /\ chatReq > 0
  /\ chatReq' = chatReq - 1
  /\ messages' = Append(messages,
                        Message("assistant",
                                IF error = NoWords THEN ReplyContent(reply)
                                ELSE ErrorContent(error)))
  /\ chatLoading' = FALSE
  /\ UNCHANGED <<chatInput, mode, sends>>
  /\ UNCHANGED <<user, toast, quizVars, materialsVars, deleteVars, notesVars,
                 rlsVars>>

NextTutor ==
  \/ \E value \in Inputs : setInput(value)
  \/ \E m \in TutorModes : setMode(m)
  \/ handleSend
  \/ \E reply \in Inputs : SendDone(reply, NoWords)
  \/ \E error \in TutorErrors : SendDone(<<>>, error)

SpecTutor == Init /\ [][NextTutor]_vars

\* ======================================================================
\* Properties
\* ======================================================================

\* the number of questions whose stored answer is the correct one
CountCorrect(qs, answers) ==
  Cardinality({i \in 1..Len(qs) :
                 /\ qs[i].id \in DOMAIN answers
                 /\ answers[qs[i].id] = qs[i].correct_answer})

\* the rows of a quiz whose options is a non-empty array or non-empty mapping
IsArrayOrMapping(q) ==
  q.options.kind \in {"array", "object"} /\ Len(q.options.vals) > 0

InFlightOrWritten == BagToSet(submitReq) \cup BagToSet(quiz_attempts)

\* the row that new has one more copy of than old
Added(old, new) ==
  CHOOSE r \in BagToSet(new) : CopiesIn(r, new) = CopiesIn(r, old) + 1

\* C1: a submit computes score = the number of loaded questions whose stored
\* answer equals correct_answer exactly (case-sensitively); the row it sends
\* has score = score / total * 100, not rounded, and total_questions = the
\* number of loaded questions; the row written is the row sent.
C1_SubmitScore ==
  [][ /\ BagCardinality(submitReq') = BagCardinality(submitReq) + 1 =>
           LET r == Added(submitReq, submitReq').row
           IN /\ r.score.den > 0
              /\ r.score.num * Len(questions) =
                   100 * CountCorrect(questions, userAnswers) * r.score.den
              /\ r.total_questions = Len(questions)
              /\ r.quiz_id = selectedQuiz
      /\ quiz_attempts' # quiz_attempts =>
           /\ BagCardinality(quiz_attempts') = BagCardinality(quiz_attempts) + 1
           /\ BagIn(Added(quiz_attempts, quiz_attempts'), submitReq)
    ]_vars

\* C1 witness: an attempt of the current session was written with 1 of 3
\* correct (33.3...%), the answer "paris" to a1 having counted as wrong.
C1_Witness ==
  /\ ViewResults
  /\ Len(questions) = 3
  /\ "a1" \in DOMAIN userAnswers /\ userAnswers["a1"] = "paris"
  /\ \E r \in BagToSet(quiz_attempts) :
        /\ r.session = session
        /\ r.row.score = [num |-> 100, den |-> 3]
        /\ r.row.total_questions = 3

\* C2: whenever a quiz is loaded, the loaded questions are exactly the rows of
\* that quiz whose options is a non-empty array or a non-empty mapping.
C2_PlayableExactly ==
  selectedQuiz # NoQuiz =>
    LET rows == FetchQuestions(selectedQuiz)
    IN \A i \in 1..Len(rows) :
         (\E j \in 1..Len(questions) : questions[j] = rows[i])
           <=> IsArrayOrMapping(rows[i])

\* C3: a loadQuiz whose select fails, or finds no playable question, shows an
\* error notification, leaves selectedQuiz, questions, currentQuestionIndex
\* and userAnswers as they were and ends in Browsing; a quiz without playable
\* questions is never entered, and no quiz is entered with zero questions.
C3_EmptyLoadAborts ==
  /\ [](selectedQuiz # NoQuiz => Len(questions) > 0)
  /\ [][ \A quiz \in loadReq :
            /\ loadReq' = loadReq \ {quiz}
            /\ \/ session' = session
               \/ \A i \in 1..Len(FetchQuestions(quiz)) :
                     Len(FetchQuestions(quiz)[i].options.vals) = 0
            => /\ toast'.kind = "error"
               /\ session' = session
               /\ UNCHANGED <<selectedQuiz, questions, currentQuestionIndex,
                              userAnswers>>
               /\ ViewBrowsing'
       ]_vars

\* C3 witness: the load of qb, which has no playable question, has ended.
C3_Witness ==
  /\ toast = Toast("error", "No valid multiple choice questions found in this quiz")
  /\ ViewBrowsing
  /\ loadReq = {}

\* C4: the Results view is shown only as the consequence of a submit made in
\* the session that is shown.
C4_ResultsOnlyBySubmit == ViewResults => resultsFrom = session

\* C5: when the quiz_attempts insert fails (an error result or a rejection),
\* the error is reported and Results is entered all the same.
C5_FailedInsertStillResults ==
  [][ BagCardinality(submitReq') = BagCardinality(submitReq) - 1
        /\ quiz_attempts' = quiz_attempts
        => toast'.kind = "error" /\ showResults'
    ]_vars

\* C6: no two quiz_attempts rows come from the same quiz session.
C6_OneAttemptPerSession ==
  \A r1, r2 \in BagToSet(quiz_attempts) :
     /\ CopiesIn(r1, quiz_attempts) = 1
     /\ r1 # r2 => r1.session # r2.session

\* C7: once a session has reached Results, userAnswers does not change for as
\* long as that quiz stays selected.
C7_NoAnswerChangeAfterResults ==
  [][ resultsFrom = session /\ selectedQuiz # NoQuiz /\ selectedQuiz' # NoQuiz
        => userAnswers' = userAnswers
    ]_vars

\* C8: while a quiz is selected 0 <= currentQuestionIndex <= count - 1; a load
\* sets the index to 0; in the in-progress view the index moves by at most
\* one per step, so it never wraps around.
C8_IndexInRange ==
  /\ [](selectedQuiz # NoQuiz =>
          0 <= currentQuestionIndex /\ currentQuestionIndex <= Len(questions) - 1)
  /\ [][ /\ session' # session => currentQuestionIndex' = 0
         /\ ViewInProgress /\ ViewInProgress' /\ session' = session
              => currentQuestionIndex' \in {currentQuestionIndex - 1,
                                             currentQuestionIndex,
                                             currentQuestionIndex + 1}
       ]_vars

\* C8 witness: Next has brought the index to the last of three questions.
C8_Witness ==
  ViewInProgress /\ Len(questions) = 3 /\ currentQuestionIndex = 2

\* C9: while a quiz stays selected, a step changes at most the entry of the
\* current question, to one of its rendered options, and never removes an
\* entry; a step that moves the index leaves userAnswers unchanged; a load
\* starts with an empty mapping.
C9_AnswersFrame ==
  [][ /\ selectedQuiz # NoQuiz /\ selectedQuiz' = selectedQuiz =>
           /\ DOMAIN userAnswers \subseteq DOMAIN userAnswers'
           /\ \A id \in DOMAIN userAnswers' :
                 \/ id \in DOMAIN userAnswers /\ userAnswers'[id] = userAnswers[id]
                 \/ /\ id = currentQuestion.id
                    /\ userAnswers'[id] \in RenderedOptions(currentQuestion)
           /\ currentQuestionIndex' # currentQuestionIndex
                => userAnswers' = userAnswers
      /\ session' # session => userAnswers' = NoAnswers
    ]_vars

\* C9 witness: back on the first question with the answers to the first and
\* second kept, the third never answered.
C9_Witness ==
  /\ ViewInProgress
  /\ currentQuestionIndex = 0
  /\ Len(questions) = 3
  /\ DOMAIN userAnswers = {"a1", "a3"}
  /\ userAnswers["a1"] = "paris"

\* C10: every successful load, a re-opening included, ends in the same state
\* for the quiz: its playable questions, index 0, no stored answer and the
\* Results flag off.
C10_ReopenSameAsFirst ==
  [][ session' # session =>
        /\ selectedQuiz' # NoQuiz
        /\ questions' = validQuestions(FetchQuestions(selectedQuiz'))
        /\ currentQuestionIndex' = 0
        /\ userAnswers' = NoAnswers
        /\ showResults' = FALSE
        /\ ViewInProgress'
    ]_vars

\* C10 witness: qa is open for the second time, freshly loaded, and the first
\* session had answered and reached the last question (it sent an attempt
\* with a correct answer).
C10_Witness ==
  /\ session = 2
  /\ selectedQuiz = "qa"
  /\ ViewInProgress
  /\ currentQuestionIndex = 0
  /\ userAnswers = NoAnswers
  /\ \E r \in InFlightOrWritten :
        r.session = 1 /\ r.row.quiz_id = "qa" /\ r.row.score.num > 0

\* C11: the exit/reset action can be taken in the in-progress view and in
\* the Results view; the step that takes a session from a selected quiz to
\* no selected quiz leaves the page in Browsing with no questions, no
\* answers, index 0 and Results off, and changes neither the quiz_attempts
\* rows nor the set of storage requests in flight.
C11_ResetToBrowsing ==
  /\ []((ViewInProgress \/ ViewResults) => ENABLED resetQuiz)
  /\ [][ (selectedQuiz # NoQuiz /\ selectedQuiz' = NoQuiz) =>
           /\ ViewBrowsing'
           /\ questions' = <<>>
           /\ userAnswers' = NoAnswers
           /\ currentQuestionIndex' = 0
           /\ showResults' = FALSE
           /\ UNCHANGED <<quiz_attempts, submitReq, loadReq, fetchReq>>
     ]_vars

\* a session that was left with an answer stored and a submit in flight
C11_Witness ==
  /\ ViewBrowsing
  /\ session > 0
  /\ userAnswers = NoAnswers
  /\ questions = <<>>
  /\ BagCardinality(submitReq) > 0

\* C12: in the Results view there is one card per playable question of the
\* selected quiz, in order; a question without a stored answer reads
\* "Not answered" and is marked incorrect; a question whose stored answer is
\* not the correct one is marked incorrect and shows the correct answer; a
\* question answered correctly is marked correct; the score shown is the
\* number of correct answers and the percentage shown is the integer nearest
\* to score / total * 100.
C12_ResultsView ==
  ViewResults =>
    LET v == ResultsView
        playable == validQuestions(FetchQuestions(selectedQuiz))
        c == CountCorrect(questions, userAnswers)
        diff == v.percentage * v.total - 100 * c
    IN /\ questions = playable
       /\ DOMAIN v.cards = 1..Len(playable)
       /\ \A i \in 1..Len(playable) :
            LET q == playable[i]
                card == v.cards[i]
            IN /\ card.id = q.id
               /\ q.id \notin DOMAIN userAnswers =>
                    card.yourAnswer = "Not answered" /\ ~card.isCorrect
               /\ (q.id \in DOMAIN userAnswers
                     /\ userAnswers[q.id] # q.correct_answer) =>
                    /\ ~card.isCorrect
                    /\ card.yourAnswer = userAnswers[q.id]
                    /\ card.showsCorrectAnswer
                    /\ card.correctAnswer = q.correct_answer
               /\ (q.id \in DOMAIN userAnswers
                     /\ userAnswers[q.id] = q.correct_answer) =>
                    card.isCorrect /\ ~card.showsCorrectAnswer
       /\ v.score = c
       /\ v.total = Len(playable)
       /\ 2 * (IF diff < 0 THEN -diff ELSE diff) <= v.total

\* three questions: one right, one wrong, one unanswered; 33 is shown
C12_Witness ==
  /\ ViewResults
  /\ Len(questions) = 3
  /\ ResultsView.score = 1
  /\ ResultsView.percentage = 33
  /\ \E i, j, k \in 1..3 :
       /\ ResultsView.cards[i].isCorrect
       /\ ~ResultsView.cards[j].isCorrect
       /\ ResultsView.cards[j].yourAnswer \notin {"Not answered"}
       /\ ResultsView.cards[k].yourAnswer = "Not answered"
       /\ ~ResultsView.cards[k].isCorrect

\* ---------------------------------------------------------------------
\* The Materials page
\* ---------------------------------------------------------------------

\* a write of run id resolved with an error or rejected
FailedIn(lg, id) ==
  \E i \in DOMAIN lg : lg[i].run = id /\ lg[i].ev \in {"error", "reject"}
RunFailed(id) == FailedIn(log, id)

\* the id that the materials insert of run id returned
MaterialOf(lg, id) ==
  lg[CHOOSE i \in DOMAIN lg :
       lg[i].run = id /\ lg[i].table = "materials" /\ lg[i].ev = "ok"].material

\* the number of elements of rows for which Test holds
Count(rows, Test(_)) == Cardinality({i \in DOMAIN rows : Test(rows[i])})

\* C13: when a write of the fan-out completes without having succeeded (it
\* resolves with an error or it rejects), the same step issues no further
\* write and ends the handler with the failure raised: the handler is idle
\* and the error notification is shown.
C13_FailedWriteStopsFanOut ==
  [][ (Len(log') > Len(log)
        /\ log'[Len(log) + 1].ev \in {"error", "reject"}) =>
          /\ Len(log') = Len(log) + 1
          /\ run'.pc = "idle"
          /\ timers' = timers
          /\ toast'.kind = "error"
    ]_vars

\* C14: the success notification and the navigation to /notes are scheduled
\* only for a run whose writes all succeeded, and they have happened only if
\* some finished run had no failed write.
C14_SuccessOnlyIfAllWritten ==
  /\ \A t \in BagToSet(timers) : ~RunFailed(t.run)
  /\ (toast.kind = "success" \/ route = "/notes") =>
       \E id \in 1..runs : run.id # id /\ ~RunFailed(id)

\* the place of a table in the order of the fan-out
Rank(table) ==
  CASE table = "materials" -> 1
    [] table = "notes" -> 2
    [] table = "flashcards" -> 3
    [] table = "quizzes" -> 4
    [] table = "questions" -> 5

MaterialIds == {db_materials[i].id : i \in DOMAIN db_materials}
QuizIds == {db_quizzes[i].id : i \in DOMAIN db_quizzes}

\* C15: the first write a run issues is the Material insert; every other
\* write is issued right after the run's previous write has completed and
\* belongs to a later step of the order Material, Note, Flashcards, Quiz,
\* Questions; nothing completes that was not issued just before. The Note,
\* Flashcards and Quiz writes carry the id that the run's Material insert
\* returned, the Questions write the id that its Quiz insert returned, and
\* every row stored refers to a parent row that is stored.
C15_OrderedAndReferenced ==
  /\ \A j \in DOMAIN log :
       LET e == log[j]
       IN IF e.ev = "issue"
          THEN /\ (j = 1 \/ log[j - 1].run # e.run) <=> e.table = "materials"
               /\ (j > 1 /\ log[j - 1].run = e.run) =>
                    /\ log[j - 1].ev \in {"ok", "error"}
                    /\ Rank(log[j - 1].table) < Rank(e.table)
               /\ e.table \in {"notes", "flashcards", "quizzes"} =>
                    /\ e.material \in MaterialIds
                    /\ \E i \in 1..(j - 1) :
                         /\ log[i].run = e.run /\ log[i].ev = "ok"
                         /\ log[i].table = "materials"
                         /\ log[i].material = e.material
               /\ e.table = "questions" =>
                    /\ e.quiz \in QuizIds
                    /\ \E i \in 1..(j - 1) :
                         /\ log[i].run = e.run /\ log[i].ev = "ok"
                         /\ log[i].table = "quizzes"
                         /\ log[i].quiz = e.quiz
          ELSE /\ j > 1
               /\ log[j - 1].ev = "issue"
               /\ log[j - 1].run = e.run
               /\ log[j - 1].table = e.table
  /\ \A i \in DOMAIN db_notes : db_notes[i].material_id \in MaterialIds
  /\ \A i \in DOMAIN db_flashcards : db_flashcards[i].material_id \in MaterialIds
  /\ \A i \in DOMAIN db_quizzes : db_quizzes[i].material_id \in MaterialIds
  /\ \A i \in DOMAIN db_questions : db_questions[i].quiz_id \in QuizIds

\* all five writes of a run were issued and completed, and each stored rows
C15_Witness ==
  /\ Len(log) = 10
  /\ db_notes # <<>>
  /\ db_flashcards # <<>>
  /\ db_questions # <<>>
  /\ \A i \in DOMAIN db_questions :
       db_quizzes[db_questions[i].quiz_id].material_id = db_materials[1].id

\* C16: when saveMaterialAndContent returns and none of its writes failed,
\* and the generation result has key_points or examples, a flashcards list
\* of f cards and a quiz_questions list of q questions, storage holds for
\* this run exactly one Material, one Note, f Flashcards, one Quiz and q
\* Questions of that Quiz.
C16_AllWritten ==
  [][ (run.pc \notin {"idle", "invoke"} /\ run'.pc = "idle"
        /\ ~FailedIn(log', run.id)
        /\ IsArray(run.generatedData.flashcards)
        /\ IsArray(run.generatedData.quiz_questions)
        /\ (Truthy(run.generatedData.key_points)
              \/ Truthy(run.generatedData.examples))) =>
          LET m == MaterialOf(log', run.id)
              OfMaterial(row) == row.material_id = m
              IsMaterial(row) == row.id = m /\ row.title = run.materialTitle
              OfQuiz(row) ==
                \E i \in DOMAIN db_quizzes' :
                  /\ db_quizzes'[i].material_id = m
                  /\ db_quizzes'[i].id = row.quiz_id
          IN /\ Count(db_materials', IsMaterial) = 1
             /\ Count(db_notes', OfMaterial) = 1
             /\ Count(db_flashcards', OfMaterial)
                  = Len(run.generatedData.flashcards.vals)
             /\ Count(db_quizzes', OfMaterial) = 1
             /\ Count(db_questions', OfQuiz)
                  = Len(run.generatedData.quiz_questions.vals)
    ]_vars

\* the Osmosis scenario: all written, success shown, the notes view reached
C16_Witness ==
  /\ route = "/notes"
  /\ toast = Toast("success", "Study materials created successfully!")
  /\ Len(db_materials) = 1 /\ db_materials[1].title = <<"Osmosis">>
  /\ Len(db_notes) = 1
  /\ Len(db_flashcards) = 5 /\ db_flashcards[2].difficulty = "medium"
  /\ Len(db_quizzes) = 1
  /\ Len(db_questions) = 8

\* C17: a Note insert is in flight only for a result that has key_points or
\* examples, a Flashcards insert only for a non-empty flashcards list, and a
\* Quiz insert only for a non-empty quiz_questions list; every Quiz stored
\* is stored, and its Questions insert issued, only for such a list.
C17_OnlyNonEmpty ==
  /\ run.pc = "notes" =>
       Truthy(run.generatedData.key_points) \/ Truthy(run.generatedData.examples)
  /\ run.pc = "flashcards" =>
       /\ IsArray(run.generatedData.flashcards)
       /\ run.generatedData.flashcards.vals # <<>>
  /\ run.pc \in {"quizzes", "questions"} =>
       /\ IsArray(run.generatedData.quiz_questions)
       /\ run.generatedData.quiz_questions.vals # <<>>

\* the way a gateway answer makes the generation fail, "none" if it does not
FailureMode(upstream) ==
  IF upstream.status = 429 THEN "RateLimited"
  ELSE IF upstream.status = 402 THEN "QuotaExhausted"
  ELSE IF upstream.status \notin 200..299 THEN "UpstreamError"
  ELSE IF upstream.content = NoContent THEN "NoContent"
  ELSE IF ~CanParse(CleanContent(upstream.content)) THEN "GenerationFormatError"
  ELSE "none"

\* C18: when the invocation resolves for a gateway answer of status 429, of
\* status 402, of another non-2xx status, or of a 2xx status with content
\* that does not parse, or when the request could not be sent, the handler
\* ends in that step with an error notification: it issues no write, storage
\* is unchanged and no success callback is scheduled. Storage holds no row
\* unless a write was issued.
C18_FailedGenerationWritesNothing ==
  /\ [](log = <<>> => /\ db_materials = <<>> /\ db_notes = <<>>
                       /\ db_flashcards = <<>> /\ db_quizzes = <<>>
                       /\ db_questions = <<>>)
  /\ [][ \A upstream \in Upstreams, delivered \in BOOLEAN :
           (/\ FailureMode(upstream) # "none" \/ ~delivered
            /\ InvokeDone(upstream, delivered)) =>
              /\ UNCHANGED <<storage, log, timers>>
              /\ run'.pc = "idle"
              /\ toast'.kind = "error"
     ]_vars

\* a generation failed: the error is shown and nothing was written
C18_Witness ==
  /\ runs = 1
  /\ run.pc = "idle"
  /\ toast = Toast("error", FunctionsHttpError)
  /\ log = <<>>
  /\ db_materials = <<>>

\* what the handler shows when its invocation resolves for this answer
Notification(fn, input, upstream) ==
  ErrorMessage(Invoke(EdgeFunction(fn, Trim(input), upstream)).error,
               FailureFallback(fn))

FourModes ==
  {"RateLimited", "QuotaExhausted", "UpstreamError", "GenerationFormatError"}

\* C19: while an invocation is in flight, any two gateway answers that fail
\* in different ones of the four modes (429, 402, another non-2xx, a 2xx
\* with content that does not parse) make the edge function answer
\* differently and make the handler show different notifications.
C19_DistinctNotifications ==
  run.pc = "invoke" =>
    \A u1, u2 \in Upstreams :
      (/\ FailureMode(u1) \in FourModes
       /\ FailureMode(u2) \in FourModes
       /\ FailureMode(u1) # FailureMode(u2)) =>
         /\ EdgeFunction(run.fn, Trim(run.input), u1)
              # EdgeFunction(run.fn, Trim(run.input), u2)
         /\ Notification(run.fn, run.input, u1)
              # Notification(run.fn, run.input, u2)

\* C20: a handler that runs with an empty or white-space-only input shows
\* its validation notification and changes nothing else: loading and the
\* progress lines stay as they are, no request is sent, no write is issued.
\* No request is ever in flight for a blank input.
C20_BlankInputRejected ==
  /\ [](run.pc # "idle" => Trim(run.input) # <<>>)
  /\ [][ /\ (Trim(topic) = <<>> /\ handleTopicGenerate) =>
              /\ toast' = Toast("error", "Please enter a topic")
              /\ UNCHANGED <<generating, progress, run, runs, storage, log,
                             timers, route, text, topic>>
         /\ (Trim(text) = <<>> /\ handleTextSubmit) =>
              /\ toast' = Toast("error", "Please enter some text to analyze")
              /\ UNCHANGED <<generating, progress, run, runs, storage, log,
                             timers, route, text, topic>>
     ]_vars

\* white space was submitted as text: the validation message, nothing sent
C20_Witness ==
  /\ toast = Toast("error", "Please enter some text to analyze")
  /\ text # <<>> /\ Trim(text) = <<>>
  /\ runs = 0
  /\ ~generating
  /\ progress = <<>>
  /\ log = <<>>

\* ---------------------------------------------------------------- C21
\* a JSON document between an opening fence, labeled or not, and a closing
\* fence
Wrapped(content, doc) == \E open \in Openings : content = Fenced(open, doc)
Unfenced(content) == ~StartsWith(Trim(content), <<Fence>>)

\* C21: when the invocation resolves for a gateway answer whose content is
\* a JSON document wrapped in an opening fence, labeled or unlabeled, and a
\* closing fence, the cleaning step returns exactly the inner document and
\* the function answers 200 with the parsed document, which the handler
\* receives; content that carries no fence reaches the parser as its
\* trimmed text.
C21_FenceStripped ==
  [][ \A upstream \in Upstreams :
        (/\ Ok(upstream.status) /\ upstream.content # NoContent
         /\ InvokeDone(upstream, TRUE)) =>
           LET response == EdgeFunction(run.fn, Trim(run.input), upstream)
           IN /\ \A doc \in JsonTexts :
                   Wrapped(upstream.content, doc) =>
                     /\ CleanContent(upstream.content) = <<doc>>
                     /\ response.status = 200
                     /\ response.data = JsonValue(doc)
                     /\ run'.pc # "idle" \/ user = NoUser
              /\ Unfenced(upstream.content) =>
                   CleanContent(upstream.content) = Trim(upstream.content)
    ]_vars

\* ---------------------------------------------------------------- C22
\* a row of questions whose quiz is not in quizzes
Orphan(row) == \A i \in 1..Len(table_quizzes) : table_quizzes[i].id # row.quiz_id
Awaiting(pc, quizId) ==
  \E req \in deleteReq : req.pc = pc /\ req.quizToDelete = quizId

InQuizzes(quizId) == \E i \in 1..Len(table_quizzes) : table_quizzes[i].id = quizId
QuestionsOf(quizId) == SelectSeq(table_questions, LAMBDA row : row.quiz_id = quizId)

\* C23: when the quizzes delete of a confirmed deletion resolves without
\* error for a quiz of the user, storage then holds neither the quiz nor any
\* of its questions, the list on the page is the list shown before without
\* that quiz and with every other quiz in place, and no fetch of the list
\* is issued.
C23_DeletedWithQuestions ==
  [][ \A req \in deleteReq :
        QuizDeleteDone(req, "ok") =>
          /\ InQuizzes(req.quizToDelete)
          /\ ~InQuizzes(req.quizToDelete)'
          /\ QuestionsOf(req.quizToDelete)' = <<>>
          /\ Len(table_quizzes') = Len(table_quizzes) - 1
          /\ quizzes' = FilterQuizzes(quizzes, req.quizToDelete)
          /\ Len(quizzes') = Len(quizzes) - 1
          /\ ~fetchReq /\ ~fetchReq'
    ]_vars

\* quiz qa, which had four questions, has been deleted
C23_Witness ==
  /\ toast = Toast("success", "Quiz deleted successfully!")
  /\ ~InQuizzes("qa") /\ QuestionsOf("qa") = <<>>
  /\ Len(QuestionsOf("qb")) = 4
  /\ quizzes = <<"qb", "qc">>
  /\ deleteReq = {}

\* ---------------------------------------------------------------- C24
\* C24, the Quizzes page: a deletion whose request fails shows the error
\* notification, leaves the list as it was and clears deleting; one that
\* succeeds removes exactly that quiz from the list shown.
C24_QuizDeleteOutcome ==
  \A req \in deleteReq :
    /\ \A outcome \in {"error", "reject"} :
         (QuestionsDeleteDone(req, outcome) \/ QuizDeleteDone(req, outcome)) =>
           /\ toast' = Toast("error", "Failed to delete quiz")
           /\ quizzes' = quizzes
           /\ \E i \in 1..Len(quizzes') : quizzes'[i] = req.quizToDelete
           /\ ~deleting'
    /\ QuizDeleteDone(req, "ok") =>
           quizzes' = FilterQuizzes(quizzes, req.quizToDelete)

\* C24, the Notes page: the same for a note.
C24_NoteDeleteOutcome ==
  \A req \in noteDeleteReq :
    /\ \A outcome \in {"error", "reject"} :
         NoteDeleteDone(req, outcome) =>
           /\ toast' = Toast("error", "Failed to delete note")
           /\ notes' = notes
           /\ Shown(req.noteToDelete)'
           /\ ~notesDeleting'
    /\ NoteDeleteDone(req, "ok") =>
           notes' = FilterNotes(notes, req.noteToDelete)

\* C24: for the deletion of a quiz and of a note alike, a failed request
\* shows an error notification, leaves the item in the list shown and clears
\* the in-flight flag; a successful one removes exactly that item from the
\* list shown and leaves every other item as it was.
C24_DeleteOutcome == [][C24_QuizDeleteOutcome /\ C24_NoteDeleteOutcome]_vars

\* ---------------------------------------------------------------- C25
\* a delete request is issued in this step: a handleDeleteConfirm call
\* awaits a delete it did not await before
Issued(req) == req \in deleteReq' /\ req \notin deleteReq

\* the questions delete is issued by a Confirm in the dialog that a click on
\* the trash button of that quiz has opened, the quizzes delete by the call
\* that awaited the questions delete of the same quiz
C25_ClickThenConfirm ==
  /\ \A req \in deleteReq' :
       Issued(req) =>
         IF req.pc = "questions"
         THEN /\ deleteDialogOpen /\ quizToDelete = req.quizToDelete
              /\ \E closes \in BOOLEAN : handleDeleteConfirm(closes)
         ELSE Awaiting("questions", req.quizToDelete)
  /\ (quizToDelete' # quizToDelete /\ quizToDelete' # NoQuiz) =>
       handleDeleteClick(quizToDelete')

\* Cancel issues no request and deletes nothing; the trash button does not
\* start loadQuiz; the card does not open the dialog
C25_SeparateTargets ==
  /\ Cancel => UNCHANGED <<deleteReq, table_quizzes, table_questions, quizzes>>
  /\ \A i \in 1..Len(quizzes) :
       /\ handleDeleteClick(quizzes[i]) =>
            UNCHANGED <<loading, loadReq, selectedQuiz, questions>>
       /\ LoadQuizStart(quizzes[i]) =>
            UNCHANGED <<deleteDialogOpen, quizToDelete, deleteReq>>

\* C25: a delete request is issued only while the page shows the list
\* (Browsing), and only after a click on the trash button of that quiz and a
\* Confirm for the same id; Cancel issues no request and deletes nothing; a
\* click on the trash button never starts loadQuiz and a click on the card
\* never opens the confirmation.
C25_DeleteOnlyFromBrowsing ==
  [][ /\ \A req \in deleteReq' : Issued(req) => ViewBrowsing
      /\ C25_ClickThenConfirm
      /\ C25_SeparateTargets ]_vars

PendingWrites ==
  Count(log, LAMBDA e : e.ev = "issue") - Count(log, LAMBDA e : e.ev # "issue")

C28_OneSubmissionInFlight ==
  /\ BagCardinality(submitReq) <= 1
  /\ submitReq # EmptyBag => ~ENABLED handleSubmit

\* ---------------------------------------------------------------- C29
\* the owner of a row: its user_id, and for a question the user_id of the
\* quiz it refers to
OwnerIn(tb, table, row) ==
  IF table # "questions" THEN row.user_id
  ELSE IF \E quiz \in Rows(tb.quizzes) : quiz.id = row.quiz_id
       THEN (CHOOSE quiz \in Rows(tb.quizzes) : quiz.id = row.quiz_id).user_id
       ELSE Null

RowsRemoved(table) == Rows(tables[table]) \ Rows(tables'[table])
RowsAdded(table) == Rows(tables'[table]) \ Rows(tables[table])

\* what the policies permit, and what a select returns, is the user's own
C29_PermittedOnOwn ==
  /\ \A uid \in Users, table \in TableNames :
       \A command \in {"SELECT", "INSERT", "UPDATE", "DELETE"} :
         \A row \in Rows(tables[table]) :
           Permitted(table, command, uid, row, tables.quizzes) =>
             OwnerIn(tables, table, row) = uid
  /\ lastOp.command = "SELECT" =>
       \A row \in Rows(lastOp.rows) :
         OwnerIn(tables, lastOp.table, row) = lastOp.uid

\* a row that a statement adds, or the new value of a row it updates, is
\* the user's own
C29_AddsOwn ==
  \A table \in TableNames : \A row \in RowsAdded(table) :
    OwnerIn(tables', table, row) = lastOp'.uid

RemovedByCascade(table, row) ==
  /\ ParentTable(table) # Null
  /\ ParentOf(table, row) \in
       Ids(tables[ParentTable(table)]) \ Ids(tables'[ParentTable(table)])

Mismatched(q) == q.correct_answer \notin RenderedOptions(q)
Gradable(qs) == Count(qs, LAMBDA q : ~Mismatched(q))

\* C30: an answer held in userAnswers is one of the values rendered for its
\* question, so a question of the session whose correct_answer is none of
\* the values rendered for it is graded wrong whatever was selected and when
\* nothing was: its card is marked wrong, and the score of the session, of
\* every insert in flight and of every row written counts at most the other
\* questions.
C30_MismatchGradedWrong ==
  /\ \A id \in DOMAIN userAnswers :
       \E i \in 1..Len(questions) :
         questions[i].id = id /\ userAnswers[id] \in RenderedOptions(questions[i])
  /\ \A i \in 1..Len(questions) :
       Mismatched(questions[i]) => ~ResultsView.cards[i].isCorrect
  /\ Score(questions, userAnswers) <= Gradable(questions)
  /\ \A req \in BagToSet(quiz_attempts) \cup BagToSet(submitReq) :
       req.row.score.num <=
         100 * Gradable(validQuestions(EqQuizId(questionsTable, req.row.quiz_id)))

\* quiz qa was submitted with the only value rendered for a4 selected and
\* the other two questions answered right: 2 of 3
C30_Witness ==
  /\ ViewResults /\ selectedQuiz = "qa"
  /\ Mismatched(questions[3]) /\ questions[3].id = "a4"
  /\ Lookup(userAnswers, "a4") = "T"
  /\ ResultsView.score = 2 /\ ResultsView.total = 3
  /\ \E req \in BagToSet(quiz_attempts) : req.row.score.num = 200

\* ---------------------------------------------------------------- C31
\* the rows of old are the first rows of new, unchanged
KeptIn(old, new) == Len(old) <= Len(new) /\ SubSeq(new, 1, Len(old)) = old

\* C31: no step of the Materials page, a failing write of the fan-out and
\* the handler's catch included, deletes or changes a row that is in
\* storage: each of the five tables keeps its rows as written and only
\* gains rows at its end.
C31_NoRollback ==
  [][/\ KeptIn(db_materials, db_materials')
     /\ KeptIn(db_notes, db_notes')
     /\ KeptIn(db_flashcards, db_flashcards')
     /\ KeptIn(db_quizzes, db_quizzes')
     /\ KeptIn(db_questions, db_questions')]_vars

\* the flashcards insert of a run was rejected and the handler has failed;
\* the material and the note the run had written are in storage
C31_Witness ==
  /\ log # <<>>
  /\ LET last == log[Len(log)]
     IN /\ last.ev = "reject" /\ last.table = "flashcards"
        /\ last.material > 0
        /\ \E i \in 1..Len(db_materials) : db_materials[i].id = last.material
        /\ \E i \in 1..Len(db_notes) : db_notes[i].material_id = last.material
  /\ run = Idle /\ toast.kind = "error"

\* ---------------------------------------------------------------- C32
\* C32: whenever a quiz is selected, in any view, questions is not empty,
\* every element of questions has the quiz_id of the selected quiz, and
\* currentQuestionIndex is the position of one of them: the current question
\* is defined.
C32_CurrentQuestionDefined ==
  selectedQuiz # NoQuiz =>
    /\ Len(questions) > 0
    /\ \A i \in 1..Len(questions) : questions[i].quiz_id = selectedQuiz
    /\ currentQuestionIndex + 1 \in DOMAIN questions
    /\ currentQuestion.quiz_id = selectedQuiz

\* a second session, opened after a reset while the insert of the first was
\* in flight, shows its last question after that insert has completed
C32_Witness ==
  /\ session = 2 /\ selectedQuiz = "qa" /\ ViewResults
  /\ resultsFrom = 1
  /\ currentQuestionIndex = Len(questions) - 1 /\ Len(questions) = 3

\* ---------------------------------------------------------------- C33
\* C33: in the Results view the percentage shown is the percentage of every
\* quiz_attempts row the session has written: userAnswers is the same when
\* the view is rendered as when handleSubmit computed the score.
C33_ShownIsWritten ==
  ViewResults /\ resultsFrom = session =>
    \A req \in BagToSet(quiz_attempts) :
      req.session = session =>
        ToFixed0(req.row.score) = ResultsView.percentage

\* ---------------------------------------------------------------- C34
\* the materials insert of run id has written its row
Written(id) ==
  \E i \in DOMAIN log :
    log[i].run = id /\ log[i].table = "materials" /\ log[i].ev = "ok"

\* C34: the success notification and the navigation to /notes are scheduled
\* only for a run whose materials insert wrote its row, and they have
\* happened only if a material is in storage; also for a run started
\* without a user.
C34_SuccessImpliesMaterial ==
  /\ \A t \in BagToSet(timers) : Written(t.run)
  /\ (toast.kind = "success" \/ route = "/notes") =>
       /\ \E id \in 1..runs : Written(id)
       /\ db_materials # <<>>

\* ---------------------------------------------------------------- C35
\* C35: in every state each key of userAnswers is the id of an element of
\* questions and its value is one of the values rendered for that question;
\* nothing is stored while no quiz is selected, and the step that opens a
\* session starts it with the empty mapping, so no answer of an earlier
\* quiz or session is left.
C35_AnswersOfLoadedQuestions ==
  /\ [](/\ \A id \in DOMAIN userAnswers :
             \E i \in 1..Len(questions) :
               /\ questions[i].id = id
               /\ questions[i].quiz_id = selectedQuiz
               /\ userAnswers[id] \in RenderedOptions(questions[i])
        /\ selectedQuiz = NoQuiz => userAnswers = NoAnswers)
  /\ [][session' # session => userAnswers' = NoAnswers]_vars

\* the first session answered a question of qa and wrote its attempt; the
\* second holds one answer, to the question of qc
C35_Witness ==
  /\ session = 2 /\ selectedQuiz = "qc"
  /\ DOMAIN userAnswers = {"c1"} /\ userAnswers["c1"] = "4"
  /\ \E req \in BagToSet(quiz_attempts) :
       req.session = 1 /\ req.row.quiz_id = "qa" /\ req.row.score.num > 0

\* ---------------------------------------------------------------- C36
\* a fraction num/den with a positive den that lies between 0 and 100
InPercentRange(p) == p.den > 0 /\ 0 <= p.num /\ p.num <= 100 * p.den

\* C36: wherever the score is computed, in handleSubmit (any state of a
\* selected quiz, and so every insert in flight and every row written) and
\* in the Results view, the number of questions is positive and
\* 0 <= score <= number of answered questions <= number of questions: the
\* percentage is a fraction with a positive divisor between 0 and 100.
C36_ScoreInRange ==
  /\ selectedQuiz # NoQuiz =>
       LET score == Score(questions, userAnswers)
           answered == Cardinality(DOMAIN userAnswers)
       IN /\ Len(questions) > 0
          /\ 0 <= score /\ score <= answered /\ answered <= Len(questions)
          /\ AttemptRow.total_questions = Len(questions)
          /\ InPercentRange(AttemptRow.score)
          /\ ViewResults =>
               /\ ResultsView.total > 0
               /\ ResultsView.score = score
               /\ ResultsView.percentage \in 0..100
  /\ \A req \in BagToSet(quiz_attempts) \cup BagToSet(submitReq) :
       /\ req.row.total_questions > 0
       /\ req.row.score.den = req.row.total_questions
       /\ InPercentRange(req.row.score)

\* Results of quiz qa with two questions answered, both right, out of three
C36_Witness ==
  /\ ViewResults /\ Len(questions) = 3
  /\ Cardinality(DOMAIN userAnswers) = 2
  /\ ResultsView.score = 2 /\ ResultsView.percentage = 67
  /\ \E req \in BagToSet(quiz_attempts) :
       req.session = session /\ req.row.score = Percentage(2, 3)

\* ---------------------------------------------------------------- C37
\* C37: on the Quizzes page loading is false whenever neither the select of
\* fetchQuizzes nor a select of loadQuiz is in flight: every run of the two
\* that has ended, the early return of fetchQuizzes included, has left
\* loading false.
C37_NoSpinnerWithoutRequest ==
  (~fetchReq /\ loadReq = {}) => ~loading

\* ---------------------------------------------------------------- C38
\* C38: a send is accepted only with a non-blank input while no request is
\* in flight; the step that accepts it appends one user message, the
\* trimmed input, and sets loading; the step that ends a request appends
\* one assistant message and clears loading; no other step changes
\* messages. So at most one request is in flight, loading tells whether
\* one is, and messages alternate user, assistant, ending with the
\* assistant whenever loading is false.
C38_AlternatingMessages ==
  /\ [](/\ chatReq \in {0, 1}
        /\ chatLoading <=> chatReq = 1
        /\ Len(messages) = 2 * sends - chatReq
        /\ \A i \in DOMAIN messages :
             messages[i].role = IF i % 2 = 1 THEN "user" ELSE "assistant")
  /\ [][/\ sends' # sends =>
             /\ Trim(chatInput) # <<>> /\ ~chatLoading /\ chatReq = 0
             /\ messages' = Append(messages, Message("user", Trim(chatInput)))
             /\ chatLoading'
        /\ chatReq' < chatReq =>
             /\ Len(messages') = Len(messages) + 1
             /\ SubSeq(messages', 1, Len(messages)) = messages
             /\ messages'[Len(messages')].role = "assistant"
             /\ messages'[Len(messages')].content # <<>>
             /\ ~chatLoading'
        /\ (sends' = sends /\ chatReq' = chatReq) => messages' = messages
       ]_vars

\* two sends: the first was answered with a reply, the second with the
\* text of a failure
C38_Witness ==
  /\ Len(messages) = 4 /\ ~chatLoading /\ chatReq = 0
  /\ messages[1] = Message("user", <<"Osmosis">>)
  /\ messages[2] = Message("assistant", <<"Osmosis">>)
  /\ messages[4] = Message("assistant", ErrorContent(<<"Failed", "to", "send",
                      "a", "request", "to", "the", "Edge", "Function">>))

====
